---- MODULE Spec2Model ----
(***************************************************************************)
(* A model of the document arena, the selector matcher and the cascade of  *)
(* the browser core (src/src/dom, src/src/css).                            *)
(*                                                                         *)
(* Text is a sequence of one-character strings, so that the parsers are    *)
(* modelled by what they do to the characters.  A NodeId is the 0-based    *)
(* index into the arena; Option::None is the value None.                   *)
(***************************************************************************)
EXTENDS Integers, Sequences, FiniteSets, TLC

VARIABLES
    nodes,              \* Document.nodes: the arena, nodes[i+1] is NodeId(i)
    document_element,   \* Document.document_element
    head,               \* Document.head
    body,               \* Document.body
    appends,            \* number of append_child calls made (bounds the run)
    lastMatch,          \* the last Selector::matches call and its result
    style,              \* one ComputedStyle.properties map under test
    applied,            \* the declarations handed to ComputedStyle::set, in order
    loaded,             \* Tab.document is Some (the conversion has finished)
    author_rules,       \* StyleContext.author_rules
    computed_cache,     \* StyleContext.computed_cache
    lastOp,             \* the last StyleContext operation
    prev_cache,         \* the operation before the last one and the cache it left
    call,               \* the last call of a pure function: its name, input and result
    layout,             \* LayoutTree.nodes with LayoutTree.root, or the empty tree
    inline_ctx,         \* one InlineContext under test
    browser,            \* Browser: tabs (by tab id), active_tab, next_tab_id
    http_cache          \* one network Cache: entries, max_size, current_size

vars == <<nodes, document_element, head, body, appends, lastMatch, style, applied,
          loaded, author_rules, computed_cache, lastOp, prev_cache, call, layout,
          inline_ctx, browser, http_cache>>

docVars == <<nodes, document_element, head, body>>
ctxVars == <<author_rules, computed_cache, lastOp, prev_cache>>
sessVars == <<browser, http_cache>>
extVars == <<call, layout, inline_ctx, sessVars>>
coreVars == <<lastMatch, style, applied, loaded, ctxVars>>

-----------------------------------------------------------------------------
(* Bounds of the model *)

MaxNodes == 4
MaxAppends == 3
MaxApplied == 3
MaxAuthorRules == 2

None == 0 - 1

-----------------------------------------------------------------------------
(* Text helpers: str::trim, split, find, to_lowercase, ... *)

IsWhitespace(c) == c \in {" ", "\n", "\t"}

Upper == <<"A","B","C","D","E","F","G","H","I","J","K","L","M",
           "N","O","P","Q","R","S","T","U","V","W","X","Y","Z">>
Lower == <<"a","b","c","d","e","f","g","h","i","j","k","l","m",
           "n","o","p","q","r","s","t","u","v","w","x","y","z">>
Digits == {"0","1","2","3","4","5","6","7","8","9"}

LowerChar(c) ==
    IF \E i \in 1..26 : Upper[i] = c
    THEN Lower[CHOOSE i \in 1..26 : Upper[i] = c]
    ELSE c

to_lowercase(s) == [i \in 1..Len(s) |-> LowerChar(s[i])]

is_alphanumeric(c) ==
    \/ c \in Digits
    \/ \E i \in 1..26 : Upper[i] = c \/ Lower[i] = c

\* the least element of a set of integers, or the default when it is empty
MinOr(S, default) == IF S = {} THEN default ELSE CHOOSE i \in S : \A j \in S : i <= j
MaxOr(S, default) == IF S = {} THEN default ELSE CHOOSE i \in S : \A j \in S : i >= j

\* a loop "for i in lo..=hi { acc = Op(acc, i) }", evaluated by halving the range
\* (the first half is evaluated before the second half is entered)
Evaluated(x) == Len(<<x>>) = 1

RECURSIVE FoldIdx(_, _, _, _)
FoldIdx(Op(_, _), acc, lo, hi) ==
    IF lo > hi THEN acc
    ELSE IF lo = hi THEN Op(acc, lo)
    ELSE LET mid == (lo + hi) \div 2
             left == FoldIdx(Op, acc, lo, mid)
         IN  IF Evaluated(left) THEN FoldIdx(Op, left, mid + 1, hi) ELSE acc

\* a loop "for x in seq { acc = Op(acc, x) }"
FoldSeq(Op(_, _), acc, seq) ==
    LET At(a, i) == Op(a, seq[i])
    IN  FoldIdx(At, acc, 1, Len(seq))

\* iterator.flat_map(Op).collect()
ConcatMap(Op(_), seq) ==
    LET Add(acc, x) == acc \o Op(x)
    IN  FoldSeq(Add, <<>>, seq)

\* the first index >= i of s whose character is not whitespace, Len(s)+1 if none
SkipWs(s, i) == MinOr({k \in i..Len(s) : ~IsWhitespace(s[k])}, IF i > Len(s) THEN i ELSE Len(s) + 1)

\* the last index <= j of s whose character is not whitespace, 0 if none
SkipWsBack(s, j) == MaxOr({k \in 1..j : ~IsWhitespace(s[k])}, 0)

\* the part of s from index a to index b, empty when a > b
Between(s, a, b) == IF a > b THEN <<>> ELSE SubSeq(s, a, b)

\* str::trim
trim(s) == Between(s, SkipWs(s, 1), SkipWsBack(s, Len(s)))

\* str::find(ch): the 1-based index of the first ch, 0 when absent
find(s, ch) == MinOr({k \in 1..Len(s) : s[k] = ch}, 0)

\* the n-th element of a set of positions; 0 for n = 0 (before the text) and
\* len + 1 past the last one (after the text)
NthOf(positions, n, len) ==
    IF n = 0 THEN 0
    ELSE IF n > Cardinality(positions) THEN len + 1
    ELSE CHOOSE k \in positions : Cardinality({q \in positions : q < k}) = n - 1

\* the pieces of s between the separator positions seps
SplitAt(s, seps) ==
    [n \in 1..(Cardinality(seps) + 1) |->
        SubSeq(s, NthOf(seps, n - 1, Len(s)) + 1, NthOf(seps, n, Len(s)) - 1)]

\* str::split(ch): the pieces between the separators, empty pieces kept
split(s, ch) == SplitAt(s, {k \in 1..Len(s) : s[k] = ch})

\* the word of s that starts at index k
WordAt(s, k) == SubSeq(s, k, MinOr({e \in k..Len(s) : IsWhitespace(s[e])}, Len(s) + 1) - 1)

\* the words of s that start at the positions starts
WordsAt(s, starts) ==
    [n \in 1..Cardinality(starts) |-> WordAt(s, NthOf(starts, n, Len(s)))]

\* str::split_whitespace: the non-empty words
split_whitespace(s) ==
    WordsAt(s, {k \in 1..Len(s) : ~IsWhitespace(s[k]) /\ (k = 1 \/ IsWhitespace(s[k - 1]))})

ends_with(s, suffix) ==
    /\ Len(s) >= Len(suffix)
    /\ SubSeq(s, Len(s) - Len(suffix) + 1, Len(s)) = suffix

starts_with(s, prefix) ==
    /\ Len(s) >= Len(prefix)
    /\ SubSeq(s, 1, Len(prefix)) = prefix

contains(s, sub) ==
    \E i \in 1..(Len(s) - Len(sub) + 1) : SubSeq(s, i, i + Len(sub) - 1) = sub

Range(s) == {s[i] : i \in 1..Len(s)}

-----------------------------------------------------------------------------
(* The document arena: src/src/dom/node.rs, src/src/dom/document.rs *)

S_html == <<"h","t","m","l">>
S_head == <<"h","e","a","d">>
S_body == <<"b","o","d","y">>
S_div == <<"d","i","v">>
S_p == <<"p">>
S_span == <<"s","p","a","n">>
S_ul == <<"u","l">>
S_li == <<"l","i">>
S_style == <<"s","t","y","l","e">>
S_class == <<"c","l","a","s","s">>
S_id == <<"i","d">>
S_hidden == <<"h","i","d","d","e","n">>
S_foo == <<"f","o","o">>
S_x == <<"x">>

\* Attributes with no entry
NoAttrs == [n \in {} |-> <<>>]

\* Node::new
NewNode(kind, tag, attrs, content) ==
    [kind |-> kind, tag_name |-> tag, attributes |-> attrs, content |-> content,
     parent |-> None, children |-> <<>>, prev_sibling |-> None, next_sibling |-> None]

\* Document::new: the arena holding the root document node
NewDocument == <<NewNode("document", <<>>, NoAttrs, <<>>)>>

\* Document::get_node: is the identifier inside the arena
valid(ns, id) == id >= 0 /\ id < Len(ns)

is_element(n) == n.kind = "element"

\* Node::get_attribute: the value, or None
has_attribute(n, name) == is_element(n) /\ name \in DOMAIN n.attributes

\* Attributes::has_class
has_class(n, class) ==
    /\ has_attribute(n, S_class)
    /\ \E w \in Range(split_whitespace(n.attributes[S_class])) : w = class

\* Document::create_element (with the attributes convert_node sets on it)
create_element(ns, tag, attrs) ==
    Append(ns, NewNode("element", to_lowercase(tag), attrs, <<>>))

\* Document::create_text
create_text(ns, content) == Append(ns, NewNode("text", <<>>, NoAttrs, content))

\* Document::create_comment
create_comment(ns, content) == Append(ns, NewNode("comment", <<>>, NoAttrs, content))

\* Document::append_child, the links; every write is guarded by a lookup as in the code
append_child(ns, parent_id, child_id) ==
    LET hasLast == valid(ns, parent_id) /\ Len(ns[parent_id + 1].children) > 0
        last_child == IF hasLast
                      THEN ns[parent_id + 1].children[Len(ns[parent_id + 1].children)]
                      ELSE None
        n1 == IF hasLast /\ valid(ns, last_child)
              THEN [ns EXCEPT ![last_child + 1].next_sibling = child_id]
              ELSE ns
        n2 == IF hasLast /\ valid(n1, child_id)
              THEN [n1 EXCEPT ![child_id + 1].prev_sibling = last_child]
              ELSE n1
        n3 == IF valid(n2, child_id)
              THEN [n2 EXCEPT ![child_id + 1].parent = parent_id]
              ELSE n2
        n4 == IF valid(n3, parent_id)
              THEN [n3 EXCEPT ![parent_id + 1].children = Append(@, child_id)]
              ELSE n3
    IN  n4

\* Document::append_child, the cached html/head/body slots
cached_slot(ns, child_id, tag, old) ==
    IF valid(ns, child_id) /\ is_element(ns[child_id + 1])
       /\ ns[child_id + 1].tag_name = tag
    THEN child_id
    ELSE old

NodeIds == 0..(Len(nodes) - 1)

DomInit ==
    /\ nodes = NewDocument
    /\ document_element = None
    /\ head = None
    /\ body = None
    /\ appends = 0

OtherInit ==
    /\ lastMatch = [sel |-> 0, node |-> None, result |-> FALSE]
    /\ style = [p \in {} |-> <<>>]
    /\ applied = <<>>
    /\ loaded = FALSE
    /\ author_rules = <<>>
    /\ computed_cache = [n \in {} |-> <<>>]
    /\ lastOp = "new"
    /\ prev_cache = [op |-> "new", cache |-> [n \in {} |-> <<>>]]

\* no pure function called yet, no layout tree built, no inline context made
ExtInit ==
    /\ call = [fn |-> "none"]
    /\ layout = <<>>
    /\ inline_ctx = <<>>

\* Browser::new_tab: the tabs are kept by their tab id, active_tab is an index
new_tab(b) ==
    [tabs |-> Append(b.tabs, b.next_tab_id),
     active_tab |-> Len(b.tabs),
     next_tab_id |-> b.next_tab_id + 1]

\* Browser::new
NewBrowser == new_tab([tabs |-> <<>>, active_tab |-> 0, next_tab_id |-> 0])

\* Cache::new; entries maps a url to the body length and cached_at of its entry
new_cache(max_size) ==
    [entries |-> [u \in {} |-> <<>>], max_size |-> max_size, current_size |-> 0]

MaxCacheSize == 2

\* one browser with its first tab, one empty cache; last is the last call made on
\* either and what it was made on
SessInit ==
    /\ browser = [b |-> NewBrowser, last |-> [op |-> "new"]]
    /\ http_cache = [c |-> new_cache(MaxCacheSize), now |-> 0, last |-> [op |-> "new"]]

Init == DomInit /\ OtherInit /\ ExtInit /\ SessInit

nonDomVars == <<lastMatch, style, applied, loaded, author_rules, computed_cache,
                lastOp, prev_cache, extVars>>

\* Document::create_element called on its own
CreateElement ==
    /\ Len(nodes) < MaxNodes
    /\ \E tag \in {S_div, S_p} :
          nodes' = create_element(nodes, tag, NoAttrs)
    /\ UNCHANGED <<document_element, head, body, appends, nonDomVars>>

CreateText ==
    /\ Len(nodes) < MaxNodes
    /\ nodes' = create_text(nodes, <<"t">>)
    /\ UNCHANGED <<document_element, head, body, appends, nonDomVars>>

CreateComment ==
    /\ Len(nodes) < MaxNodes
    /\ nodes' = create_comment(nodes, <<"c">>)
    /\ UNCHANGED <<document_element, head, body, appends, nonDomVars>>

\* Document::append_child with any two identifiers of the document
AppendChild ==
    /\ appends < MaxAppends
    /\ \E parent_id \in NodeIds, child_id \in NodeIds :
          /\ nodes' = append_child(nodes, parent_id, child_id)
          /\ document_element' = cached_slot(nodes', child_id, S_html, document_element)
          /\ head' = cached_slot(nodes', child_id, S_head, head)
          /\ body' = cached_slot(nodes', child_id, S_body, body)
    /\ appends' = appends + 1
    /\ UNCHANGED nonDomVars

DomNext == CreateElement \/ CreateText \/ CreateComment \/ AppendChild

SpecDom == Init /\ [][DomNext]_vars

-----------------------------------------------------------------------------
(* Link consistency of the arena *)

\* the positions of child a in the child list of p
Positions(ns, p, a) ==
    {i \in 1..Len(ns[p + 1].children) : ns[p + 1].children[i] = a}

ParentChildConsistent(ns) ==
    \A p \in 0..(Len(ns) - 1), a \in 0..(Len(ns) - 1) :
        (Positions(ns, p, a) # {}) <=> (ns[a + 1].parent = p)

SiblingsConsistent(ns) ==
    \A p \in 0..(Len(ns) - 1) :
        LET ch == ns[p + 1].children
        IN  \A i \in 1..Len(ch) :
               /\ ns[ch[i] + 1].prev_sibling = (IF i = 1 THEN None ELSE ch[i - 1])
               /\ ns[ch[i] + 1].next_sibling = (IF i = Len(ch) THEN None ELSE ch[i + 1])

\* C8: after any sequence of create_element/create_text/create_comment and
\* append_child calls on identifiers of the document, A occurs in P's child
\* list exactly when A's parent is P, and every node's prev/next sibling
\* pointers name its neighbours in its parent's child list.
C8_LinksConsistent ==
    /\ ParentChildConsistent(nodes)
    /\ SiblingsConsistent(nodes)

-----------------------------------------------------------------------------
(* Selectors: src/src/css/selector.rs *)

\* SelectorPart; op and value are "None" / <<>> where the variant has none
Part(kind, name, op, value) == [kind |-> kind, name |-> name, op |-> op, value |-> value]

\* str::trim_matches(ch)
trim_matches(s, ch) ==
    Between(s, MinOr({k \in 1..Len(s) : s[k] # ch}, Len(s) + 1),
               MaxOr({k \in 1..Len(s) : s[k] # ch}, 0))

\* the AttributeOp a name ending in the character last stands for
AttributeOp(last) ==
    CASE last = "~" -> "Contains"
      [] last = "|" -> "StartsWith"
      [] last = "^" -> "Prefix"
      [] last = "$" -> "Suffix"
      [] last = "*" -> "Substring"
      [] OTHER -> "Exact"

\* the part for "n=v", op being the operator n ends in
AttributePart(n, op, v) ==
    Part("Attribute", IF op = "Exact" THEN n ELSE SubSeq(n, 1, Len(n) - 1), op,
         trim_matches(trim_matches(v, "\""), "'"))

\* the part for the text s whose first '=' is at pos (0: none)
AttributeAt(s, pos) ==
    IF Len(s) = 0 THEN <<>>
    ELSE IF pos = 0 THEN <<Part("Attribute", s, "None", <<>>)>>
    ELSE <<AttributePart(SubSeq(s, 1, pos - 1),
                         AttributeOp(IF pos > 1 THEN s[pos - 1] ELSE ""),
                         SubSeq(s, pos + 1, Len(s)))>>

\* the part for the trimmed text s
AttributeOf(s) == AttributeAt(s, find(s, "="))

\* Selector::parse_attribute: <<part>> for Some(part), <<>> for None
parse_attribute(str) == AttributeOf(trim(str))

\* Selector::calculate_specificity
CountAll(parts, kinds) ==
    LET CountGroup(acc, group) ==
            acc + Cardinality({i \in 1..Len(group.parts) : group.parts[i].kind \in kinds})
    IN  FoldSeq(CountGroup, 0, parts)

calculate_specificity(parts) ==
    <<0, CountAll(parts, {"Id"}),
         CountAll(parts, {"Class", "Attribute", "PseudoClass"}),
         CountAll(parts, {"Type", "PseudoElement"})>>

\* the "flush buffer" step of Selector::parse
Flush(current, buffer) ==
    IF buffer # <<>> THEN Append(current, Part("Type", to_lowercase(buffer), "None", <<>>))
    ELSE current

\* iterator.by_ref().take_while(pred): the first index >= i whose character fails
\* the predicate (that character is consumed too), Len(s)+1 when none fails
TakeWhileIdent(s, i, extra) ==
    MinOr({k \in i..Len(s) : ~(is_alphanumeric(s[k]) \/ s[k] \in extra)}, Len(s) + 1)

TakeWhileNot(s, i, ch) == MinOr({k \in i..Len(s) : s[k] = ch}, Len(s) + 1)

\* where the iterator stands after a take_while that stopped at index j
AfterTakeWhile(s, j) == IF j <= Len(s) THEN j + 1 ELSE j

\* "while chars.peek() == Some(&' ') { chars.next(); }"
SkipSpaces(s, i) == MinOr({k \in i..Len(s) : s[k] # " "}, IF i > Len(s) THEN i ELSE Len(s) + 1)

\* the combinator arm of Selector::parse: cur is the flushed compound, j the index
\* after the spaces that follow index i
CombinatorAt(s, j) ==
    IF ~(j <= Len(s) /\ s[j] \in {">", "+", "~"}) THEN "Descendant"
    ELSE IF s[j] = ">" THEN "Child"
    ELSE IF s[j] = "+" THEN "Adjacent"
    ELSE "Sibling"

AfterCombinator(s, j) ==
    IF j <= Len(s) /\ s[j] \in {">", "+", "~"} THEN SkipSpaces(s, j + 1) ELSE j

CombinatorStep(st, cur, combinator, k) ==
    IF cur # <<>>
    THEN [parts |-> Append(st.parts, [parts |-> cur, combinator |-> combinator]),
          current |-> <<>>, buffer |-> <<>>, next |-> k]
    ELSE [st EXCEPT !.current = cur, !.buffer = <<>>, !.next = k]

CombinatorArm(s, st, j) ==
    CombinatorStep(st, Flush(st.current, st.buffer), CombinatorAt(s, j), AfterCombinator(s, j))

\* the '#', '.' and ':' arms: the name runs from index i + 1 to the index before j
NameArm(s, st, kind, i, j) ==
    [st EXCEPT !.current = Append(Flush(st.current, st.buffer),
                                  Part(kind, SubSeq(s, i + 1, j - 1), "None", <<>>)),
               !.buffer = <<>>, !.next = AfterTakeWhile(s, j)]

\* the '[' arm: the attribute text runs from index i + 1 to the index before j
AttributeArm(s, st, i, j) ==
    [st EXCEPT !.current = Flush(st.current, st.buffer)
                               \o parse_attribute(SubSeq(s, i + 1, j - 1)),
               !.buffer = <<>>, !.next = AfterTakeWhile(s, j)]

\* one turn of the "while let Some(&c) = chars.peek()" loop of Selector::parse,
\* with the iterator at index i; st.next is where the iterator stands afterwards
ParseStep(s, st, i) ==
    IF i < st.next THEN st
    ELSE
      CASE s[i] \in {" ", ">", "+", "~"} -> CombinatorArm(s, st, SkipSpaces(s, i))
        [] s[i] \in {"#", "."} ->
             NameArm(s, st, IF s[i] = "#" THEN "Id" ELSE "Class", i,
                     TakeWhileIdent(s, i + 1, {"-", "_"}))
        [] s[i] = "*" ->
             [st EXCEPT !.current = Append(st.current, Part("Universal", <<>>, "None", <<>>)),
                        !.next = i + 1]
        [] s[i] = "[" -> AttributeArm(s, st, i, TakeWhileNot(s, i + 1, "]"))
        [] s[i] = ":" -> NameArm(s, st, "PseudoClass", i, TakeWhileIdent(s, i + 1, {"-"}))
        [] OTHER -> [st EXCEPT !.buffer = Append(st.buffer, s[i]), !.next = i + 1]

\* the end of Selector::parse: the last compound is pushed with no combinator
SelectorOf(parts) ==
    IF parts = <<>> THEN <<>>
    ELSE <<[parts |-> parts, specificity |-> calculate_specificity(parts)]>>

LastGroup(parts, cur) ==
    SelectorOf(IF cur # <<>> THEN Append(parts, [parts |-> cur, combinator |-> "None"])
               ELSE parts)

FinishParse(end) == LastGroup(end.parts, Flush(end.current, end.buffer))

ParseTrimmed(s) ==
    LET Step(st, i) == ParseStep(s, st, i)
    IN  FinishParse(FoldIdx(Step, [parts |-> <<>>, current |-> <<>>, buffer |-> <<>>,
                                   next |-> 1], 1, Len(s)))

\* Selector::parse: <<selector>> for Some(selector), <<>> for None
parse_selector(input) == ParseTrimmed(trim(input))

\* Selector::node_matches_part
node_matches_part(node, part) ==
    CASE part.kind = "Universal" -> TRUE
      [] part.kind = "Type" -> is_element(node) /\ node.tag_name = part.name
      [] part.kind = "Id" -> has_attribute(node, S_id) /\ node.attributes[S_id] = part.name
      [] part.kind = "Class" -> has_class(node, part.name)
      [] part.kind = "Attribute" ->
           /\ has_attribute(node, part.name)
           /\ LET a == node.attributes[part.name]
                  v == part.value
              IN  CASE part.op = "None" -> TRUE
                    [] part.op = "Exact" -> a = v
                    [] part.op = "Contains" -> \E w \in Range(split_whitespace(a)) : w = v
                    [] part.op = "Prefix" -> starts_with(a, v)
                    [] part.op = "Suffix" -> ends_with(a, v)
                    [] part.op = "Substring" -> contains(a, v)
                    [] part.op = "StartsWith" -> a = v \/ starts_with(a, Append(v, "-"))
                    [] OTHER -> FALSE
      [] OTHER -> FALSE

\* Selector::node_matches_parts
node_matches_parts(node, part_list) ==
    \A i \in 1..Len(part_list) : node_matches_part(node, part_list[i])

\* Selector::matches_with_context; part_index is 1-based, 1 is "the first part"
RECURSIVE matches_with_context(_, _, _, _)
matches_with_context(ns, sel, node_id, part_index) ==
    IF ~valid(ns, node_id) THEN FALSE
    ELSE
      LET node == ns[node_id + 1]
          group == sel.parts[part_index]
          prev_index == part_index - 1
          \* the "while let Some(..) = current" walks over parents and previous siblings
          RECURSIVE Walk(_, _)
          Walk(current, field) ==
              IF current = None THEN FALSE
              ELSE IF matches_with_context(ns, sel, current, prev_index) THEN TRUE
              ELSE Walk(IF valid(ns, current)
                        THEN (IF field = "parent" THEN ns[current + 1].parent
                              ELSE ns[current + 1].prev_sibling)
                        ELSE None, field)
      IN  IF ~node_matches_parts(node, group.parts) THEN FALSE
          ELSE IF part_index = 1 THEN TRUE
          ELSE CASE group.combinator = "None" -> TRUE
                 [] group.combinator = "Child" ->
                      IF node.parent # None
                      THEN matches_with_context(ns, sel, node.parent, prev_index)
                      ELSE FALSE
                 [] group.combinator = "Descendant" -> Walk(node.parent, "parent")
                 [] group.combinator = "Adjacent" ->
                      IF node.prev_sibling # None
                      THEN matches_with_context(ns, sel, node.prev_sibling, prev_index)
                      ELSE FALSE
                 [] group.combinator = "Sibling" -> Walk(node.prev_sibling, "prev_sibling")

\* a plausible slip: matching starts at the first compound, not at the last
matches_from_first(ns, sel, node_id) ==
    matches_with_context(ns, sel, node_id, IF Len(sel.parts) = 0 THEN 0 ELSE 1)

\* Selector::matches
matches(ns, sel, node_id) ==
    matches_with_context(ns, sel, node_id, IF Len(sel.parts) = 0 THEN 0 ELSE Len(sel.parts))


-----------------------------------------------------------------------------
(* Building a document the way parse_html does: src/src/dom/parser.rs *)

Attr1(name, value) == [n \in {name} |-> value]

\* convert_node only descends into the document node and into elements
CanHoldChildren(n) == n.kind \in {"document", "element"}

\* convert_node, RcNodeData::Element, without the append_child call
convert_element_detached(ns, parent_id, tag, attrs) == create_element(ns, tag, attrs)

\* convert_node, RcNodeData::Element: create the element, copy its attributes,
\* append it under parent_id
convert_element(ns, parent_id, tag, attrs) ==
    append_child(create_element(ns, tag, attrs), parent_id, Len(ns))

\* convert_node, RcNodeData::Text
convert_text(ns, parent_id, content) ==
    IF trim(content) # <<>> \/ parent_id > 0
    THEN append_child(create_text(ns, content), parent_id, Len(ns))
    ELSE ns

ConvertElement(templates) ==
    /\ ~loaded
    /\ Len(nodes) < MaxNodes
    /\ \E parent_id \in NodeIds, t \in templates :
          /\ CanHoldChildren(nodes[parent_id + 1])
          /\ nodes' = convert_element(nodes, parent_id, t.tag, t.attrs)
          /\ document_element' = cached_slot(nodes', Len(nodes), S_html, document_element)
          /\ head' = cached_slot(nodes', Len(nodes), S_head, head)
          /\ body' = cached_slot(nodes', Len(nodes), S_body, body)
    /\ UNCHANGED <<appends, nonDomVars>>

ConvertText(texts) ==
    /\ ~loaded
    /\ Len(nodes) < MaxNodes
    /\ \E parent_id \in NodeIds, content \in texts :
          /\ CanHoldChildren(nodes[parent_id + 1])
          /\ nodes' = convert_text(nodes, parent_id, content)
    /\ UNCHANGED <<document_element, head, body, appends, nonDomVars>>

\* tree notions the properties are stated in
ParentOf(ns, n) == ns[n + 1].parent

RECURSIVE Ancestors(_, _)
Ancestors(ns, n) ==
    IF ParentOf(ns, n) = None THEN {}
    ELSE {ParentOf(ns, n)} \cup Ancestors(ns, ParentOf(ns, n))

PrecedingSiblings(ns, n) ==
    IF ParentOf(ns, n) = None THEN {}
    ELSE LET ch == ns[ParentOf(ns, n) + 1].children
         IN  {ch[i] : i \in {i \in 1..Len(ch) : \E j \in (i + 1)..Len(ch) : ch[j] = n}}

PreviousSibling(ns, n) ==
    IF ParentOf(ns, n) = None THEN {}
    ELSE LET ch == ns[ParentOf(ns, n) + 1].children
         IN  {ch[i] : i \in {i \in 1..Len(ch) : i + 1 <= Len(ch) /\ ch[i + 1] = n}}

-----------------------------------------------------------------------------
(* Matching selectors against converted documents *)

SelectorTexts == <<
    <<"d","i","v",".","f","o","o"," ",">"," ","p">>,    \* div.foo > p
    <<"u","l"," ","l","i">>,                            \* ul li
    <<"d","i","v"," ","p">>,                            \* div p
    <<"d","i","v"," ","+"," ","p">>,                    \* div + p
    <<"d","i","v"," ","~"," ","p">> >>                  \* div ~ p

ParsedSelectors == [k \in 1..Len(SelectorTexts) |-> parse_selector(SelectorTexts[k])]

SelTemplates ==
    {[tag |-> S_div, attrs |-> NoAttrs],
     [tag |-> S_div, attrs |-> Attr1(S_class, S_foo)],
     [tag |-> S_p, attrs |-> NoAttrs],
     [tag |-> S_span, attrs |-> NoAttrs],
     [tag |-> S_ul, attrs |-> NoAttrs],
     [tag |-> S_li, attrs |-> NoAttrs]}

\* Selector::parse followed by Selector::matches on a node of the document
Match ==
    /\ \E k \in 1..Len(SelectorTexts), n \in NodeIds :
          /\ ParsedSelectors[k] # <<>>
          /\ lastMatch' = [sel |-> k, node |-> n,
                           result |-> matches(nodes, ParsedSelectors[k][1], n)]
    /\ UNCHANGED <<docVars, appends, style, applied, loaded, ctxVars, extVars>>

SelNext == ConvertElement(SelTemplates) \/ Match

SpecSel == Init /\ [][SelNext]_vars

IsTag(ns, n, tag) == valid(ns, n) /\ is_element(ns[n + 1]) /\ ns[n + 1].tag_name = tag

IsDivFoo(ns, n) == IsTag(ns, n, S_div) /\ has_class(ns[n + 1], S_foo)

\* C2: "div.foo > p" matches a p whose immediate parent is a div with class
\* foo, and matches a node only if it is a p whose immediate parent is such a
\* div (so not a p nested inside an intermediate element under that div).
C2_ChildCombinator ==
    lastMatch.sel = 1 =>
        (lastMatch.result <=>
            /\ IsTag(nodes, lastMatch.node, S_p)
            /\ IsDivFoo(nodes, ParentOf(nodes, lastMatch.node)))

\* C3: "ul li" matches an li at any depth under a ul, also when elements that
\* are not li lie between the ul and the li.
C3_DescendantMatches ==
    (/\ lastMatch.sel = 2
     /\ IsTag(nodes, lastMatch.node, S_li)
     /\ \E a \in Ancestors(nodes, lastMatch.node) : IsTag(nodes, a, S_ul))
        => lastMatch.result

C3_Witness ==
    /\ lastMatch.sel = 2
    /\ lastMatch.result
    /\ IsTag(nodes, lastMatch.node, S_li)
    /\ ~IsTag(nodes, ParentOf(nodes, lastMatch.node), S_ul)
    /\ ~IsTag(nodes, ParentOf(nodes, lastMatch.node), S_li)
    /\ \E a \in Ancestors(nodes, lastMatch.node) : IsTag(nodes, a, S_ul)

\* the nodes a combinator relates a node to
Related(ns, n, combinator) ==
    CASE combinator = "Child" -> {ParentOf(ns, n)} \ {None}
      [] combinator = "Descendant" -> Ancestors(ns, n)
      [] combinator = "Adjacent" -> PreviousSibling(ns, n)
      [] combinator = "Sibling" -> PrecedingSiblings(ns, n)
      [] OTHER -> {}

\* C4: a selector of two compound groups A and B joined by a descendant, '+'
\* or '~' combinator matches a node only if the node satisfies B and some
\* ancestor, the immediate previous sibling, or some preceding sibling
\* (respectively) satisfies A.
C4_CombinatorRequiresRelated ==
    (/\ lastMatch.sel # 0
     /\ lastMatch.result
     /\ Len(ParsedSelectors[lastMatch.sel][1].parts) = 2
     /\ ParsedSelectors[lastMatch.sel][1].parts[1].combinator
            \in {"Descendant", "Adjacent", "Sibling"})
        => LET sel == ParsedSelectors[lastMatch.sel][1]
           IN  /\ node_matches_parts(nodes[lastMatch.node + 1], sel.parts[2].parts)
               /\ \E r \in Related(nodes, lastMatch.node, sel.parts[1].combinator) :
                     node_matches_parts(nodes[r + 1], sel.parts[1].parts)

-----------------------------------------------------------------------------
(* Computed styles: src/src/css/style.rs *)

\* Specificity's derived Ord: lexicographic on the four components
RECURSIVE LexGE(_, _, _)
LexGE(a, b, i) ==
    IF i > Len(a) THEN TRUE
    ELSE IF a[i] # b[i] THEN a[i] > b[i]
    ELSE LexGE(a, b, i + 1)

specificity_ge(a, b) == LexGE(a, b, 1)

StyleProperty(value, specificity, important) ==
    [value |-> value, specificity |-> specificity, important |-> important]

\* a plausible slip: '>' for '>=', so that an equal later declaration loses
should_override_strict(self, other) ==
    IF self.important # other.important THEN self.important
    ELSE self.specificity # other.specificity
         /\ specificity_ge(self.specificity, other.specificity)

\* StyleProperty::should_override
should_override(self, other) ==
    IF self.important # other.important THEN self.important
    ELSE specificity_ge(self.specificity, other.specificity)

\* ComputedStyle::new
NewStyle == [p \in {} |-> <<>>]

\* ComputedStyle::set
set(properties, property, value) ==
    IF property \in DOMAIN properties /\ ~should_override(value, properties[property])
    THEN properties
    ELSE [p \in DOMAIN properties \cup {property} |->
            IF p = property THEN value ELSE properties[p]]

S_red == <<"r","e","d">>
S_blue == <<"b","l","u","e">>

SetProperties == {"Color", "Display"}
SetValues == {S_red, S_blue}
SetSpecificities == {<<0, 0, 0, 2>>, <<0, 0, 1, 0>>, <<1, 0, 0, 0>>}

\* ComputedStyle::set called with any declaration
SetProperty ==
    /\ Len(applied) < MaxApplied
    /\ \E property \in SetProperties, v \in SetValues, sp \in SetSpecificities,
          important \in BOOLEAN :
          LET value == StyleProperty(v, sp, important)
          IN  /\ style' = set(style, property, value)
              /\ applied' = Append(applied, [property |-> property, value |-> value])
    /\ UNCHANGED <<docVars, appends, lastMatch, loaded, ctxVars, extVars>>

StyleNext == SetProperty

SpecStyle == Init /\ [][StyleNext]_vars

\* the cascade order on declarations, stated on its own
LexLess(a, b) ==
    \E i \in 1..4 : a[i] < b[i] /\ \A j \in 1..(i - 1) : a[j] = b[j]

Outranks(d, e) ==
    \/ d.important /\ ~e.important
    \/ d.important = e.important /\ LexLess(e.specificity, d.specificity)

SameRank(d, e) == d.important = e.important /\ d.specificity = e.specificity

AppliedTo(property) == {i \in 1..Len(applied) : applied[i].property = property}

IsWinner(w, property) ==
    \A j \in AppliedTo(property) :
        \/ j = w
        \/ Outranks(applied[w].value, applied[j].value)
        \/ SameRank(applied[w].value, applied[j].value) /\ j < w

\* C1: after any sequence of set calls the stored declaration of a property is
\* the cascade winner of the declarations applied to it: important beats
\* non-important whatever the specificity, then the lexicographically highest
\* specificity wins, then the latest applied.
C1_StoredIsCascadeWinner ==
    \A property \in SetProperties :
        IF AppliedTo(property) = {} THEN property \notin DOMAIN style
        ELSE /\ property \in DOMAIN style
             /\ \E w \in AppliedTo(property) :
                   IsWinner(w, property) /\ style[property] = applied[w].value

C1_Witness ==
    /\ Len(applied) = 3
    /\ \A i \in 1..3 : applied[i].property = "Color"
    /\ applied[1].value.important /\ applied[1].value.specificity = <<0, 0, 0, 2>>
    /\ ~applied[2].value.important /\ applied[2].value.specificity = <<1, 0, 0, 0>>
    /\ applied[3].value.important /\ applied[3].value.specificity = <<0, 0, 0, 2>>
    /\ applied[3].value.value # applied[1].value.value
    /\ style["Color"] = applied[3].value


-----------------------------------------------------------------------------
(* Property identifiers: src/src/css/properties.rs *)

\* PropertyId::from_name: the names the match lists, in its order
PropertyNames == <<
    <<<<"d","i","s","p","l","a","y">>, "Display">>,
    <<<<"p","o","s","i","t","i","o","n">>, "Position">>,
    <<<<"f","l","o","a","t">>, "Float">>,
    <<<<"c","l","e","a","r">>, "Clear">>,
    <<<<"w","i","d","t","h">>, "Width">>,
    <<<<"h","e","i","g","h","t">>, "Height">>,
    <<<<"m","i","n","-","w","i","d","t","h">>, "MinWidth">>,
    <<<<"m","i","n","-","h","e","i","g","h","t">>, "MinHeight">>,
    <<<<"m","a","x","-","w","i","d","t","h">>, "MaxWidth">>,
    <<<<"m","a","x","-","h","e","i","g","h","t">>, "MaxHeight">>,
    <<<<"m","a","r","g","i","n">>, "Margin">>,
    <<<<"m","a","r","g","i","n","-","t","o","p">>, "MarginTop">>,
    <<<<"m","a","r","g","i","n","-","r","i","g","h","t">>, "MarginRight">>,
    <<<<"m","a","r","g","i","n","-","b","o","t","t","o","m">>, "MarginBottom">>,
    <<<<"m","a","r","g","i","n","-","l","e","f","t">>, "MarginLeft">>,
    <<<<"p","a","d","d","i","n","g">>, "Padding">>,
    <<<<"p","a","d","d","i","n","g","-","t","o","p">>, "PaddingTop">>,
    <<<<"p","a","d","d","i","n","g","-","r","i","g","h","t">>, "PaddingRight">>,
    <<<<"p","a","d","d","i","n","g","-","b","o","t","t","o","m">>, "PaddingBottom">>,
    <<<<"p","a","d","d","i","n","g","-","l","e","f","t">>, "PaddingLeft">>,
    <<<<"b","o","r","d","e","r","-","w","i","d","t","h">>, "BorderWidth">>,
    <<<<"b","o","r","d","e","r","-","t","o","p","-","w","i","d","t","h">>, "BorderTopWidth">>,
    <<<<"b","o","r","d","e","r","-","r","i","g","h","t","-","w","i","d","t","h">>, "BorderRightWidth">>,
    <<<<"b","o","r","d","e","r","-","b","o","t","t","o","m","-","w","i","d","t","h">>, "BorderBottomWidth">>,
    <<<<"b","o","r","d","e","r","-","l","e","f","t","-","w","i","d","t","h">>, "BorderLeftWidth">>,
    <<<<"b","o","r","d","e","r","-","c","o","l","o","r">>, "BorderColor">>,
    <<<<"b","o","r","d","e","r","-","t","o","p","-","c","o","l","o","r">>, "BorderTopColor">>,
    <<<<"b","o","r","d","e","r","-","r","i","g","h","t","-","c","o","l","o","r">>, "BorderRightColor">>,
    <<<<"b","o","r","d","e","r","-","b","o","t","t","o","m","-","c","o","l","o","r">>, "BorderBottomColor">>,
    <<<<"b","o","r","d","e","r","-","l","e","f","t","-","c","o","l","o","r">>, "BorderLeftColor">>,
    <<<<"b","o","r","d","e","r","-","s","t","y","l","e">>, "BorderStyle">>,
    <<<<"b","o","r","d","e","r","-","r","a","d","i","u","s">>, "BorderRadius">>,
    <<<<"c","o","l","o","r">>, "Color">>,
    <<<<"b","a","c","k","g","r","o","u","n","d","-","c","o","l","o","r">>, "BackgroundColor">>,
    <<<<"b","a","c","k","g","r","o","u","n","d">>, "Background">>,
    <<<<"f","o","n","t","-","f","a","m","i","l","y">>, "FontFamily">>,
    <<<<"f","o","n","t","-","s","i","z","e">>, "FontSize">>,
    <<<<"f","o","n","t","-","w","e","i","g","h","t">>, "FontWeight">>,
    <<<<"f","o","n","t","-","s","t","y","l","e">>, "FontStyle">>,
    <<<<"l","i","n","e","-","h","e","i","g","h","t">>, "LineHeight">>,
    <<<<"t","e","x","t","-","a","l","i","g","n">>, "TextAlign">>,
    <<<<"t","e","x","t","-","d","e","c","o","r","a","t","i","o","n">>, "TextDecoration">>,
    <<<<"t","e","x","t","-","t","r","a","n","s","f","o","r","m">>, "TextTransform">>,
    <<<<"l","e","t","t","e","r","-","s","p","a","c","i","n","g">>, "LetterSpacing">>,
    <<<<"w","o","r","d","-","s","p","a","c","i","n","g">>, "WordSpacing">>,
    <<<<"w","h","i","t","e","-","s","p","a","c","e">>, "WhiteSpace">>,
    <<<<"f","l","e","x","-","d","i","r","e","c","t","i","o","n">>, "FlexDirection">>,
    <<<<"f","l","e","x","-","w","r","a","p">>, "FlexWrap">>,
    <<<<"j","u","s","t","i","f","y","-","c","o","n","t","e","n","t">>, "JustifyContent">>,
    <<<<"a","l","i","g","n","-","i","t","e","m","s">>, "AlignItems">>,
    <<<<"a","l","i","g","n","-","c","o","n","t","e","n","t">>, "AlignContent">>,
    <<<<"f","l","e","x","-","g","r","o","w">>, "FlexGrow">>,
    <<<<"f","l","e","x","-","s","h","r","i","n","k">>, "FlexShrink">>,
    <<<<"f","l","e","x","-","b","a","s","i","s">>, "FlexBasis">>,
    <<<<"g","r","i","d","-","t","e","m","p","l","a","t","e","-","c","o","l","u","m","n","s">>, "GridTemplateColumns">>,
    <<<<"g","r","i","d","-","t","e","m","p","l","a","t","e","-","r","o","w","s">>, "GridTemplateRows">>,
    <<<<"g","r","i","d","-","c","o","l","u","m","n">>, "GridColumn">>,
    <<<<"g","r","i","d","-","r","o","w">>, "GridRow">>,
    <<<<"g","a","p">>, "Gap">>,
    <<<<"t","o","p">>, "Top">>,
    <<<<"r","i","g","h","t">>, "Right">>,
    <<<<"b","o","t","t","o","m">>, "Bottom">>,
    <<<<"l","e","f","t">>, "Left">>,
    <<<<"z","-","i","n","d","e","x">>, "ZIndex">>,
    <<<<"o","v","e","r","f","l","o","w">>, "Overflow">>,
    <<<<"o","v","e","r","f","l","o","w","-","x">>, "OverflowX">>,
    <<<<"o","v","e","r","f","l","o","w","-","y">>, "OverflowY">>,
    <<<<"v","i","s","i","b","i","l","i","t","y">>, "Visibility">>,
    <<<<"o","p","a","c","i","t","y">>, "Opacity">>,
    <<<<"c","u","r","s","o","r">>, "Cursor">>,
    <<<<"b","o","x","-","s","i","z","i","n","g">>, "BoxSizing">> >>

replace_underscore(s) == [i \in 1..Len(s) |-> IF s[i] = "_" THEN "-" ELSE s[i]]

\* the PropertyId of the first entry among the table rows hits
FirstHit(hits) ==
    IF hits = {} THEN "Unknown"
    ELSE PropertyNames[CHOOSE k \in hits : \A h \in hits : k <= h][2]

LookUp(n) == FirstHit({k \in 1..Len(PropertyNames) : PropertyNames[k][1] = n})

\* PropertyId::from_name
from_name(name) == LookUp(replace_underscore(to_lowercase(name)))

\* PropertyId::is_inherited
is_inherited(property) ==
    property \in {"Color", "FontFamily", "FontSize", "FontWeight", "FontStyle", "LineHeight",
                  "TextAlign", "TextDecoration", "TextTransform", "LetterSpacing",
                  "WordSpacing", "WhiteSpace", "Visibility", "Cursor"}

-----------------------------------------------------------------------------
(* The stylesheet parser: src/src/css/parser.rs *)

S_important == <<"!","i","m","p","o","r","t","a","n","t">>
S_rgb == <<"r","g","b">>

\* Color::from_name_exists
ColorNames ==
    {<<"b","l","a","c","k">>, <<"w","h","i","t","e">>, <<"r","e","d">>,
     <<"g","r","e","e","n">>, <<"b","l","u","e">>,
     <<"t","r","a","n","s","p","a","r","e","n","t">>, <<"y","e","l","l","o","w">>,
     <<"o","r","a","n","g","e">>, <<"p","u","r","p","l","e">>, <<"p","i","n","k">>,
     <<"g","r","a","y">>, <<"g","r","e","y">>}

from_name_exists(name) == to_lowercase(name) \in ColorNames

\* FourSides with the left side of three values taken from the third
FourSides_left_from_bottom(parts) ==
    CASE Len(parts) = 1 -> <<parts[1], parts[1], parts[1], parts[1]>>
      [] Len(parts) = 2 -> <<parts[1], parts[2], parts[1], parts[2]>>
      [] Len(parts) = 3 -> <<parts[1], parts[2], parts[3], parts[3]>>
      [] Len(parts) = 4 -> <<parts[1], parts[2], parts[3], parts[4]>>
      [] OTHER -> <<>>

\* the 1/2/3/4-value match of expand_shorthand: <<top, right, bottom, left>>,
\* <<>> for any other number of values
FourSides(parts) ==
    CASE Len(parts) = 1 -> <<parts[1], parts[1], parts[1], parts[1]>>
      [] Len(parts) = 2 -> <<parts[1], parts[2], parts[1], parts[2]>>
      [] Len(parts) = 3 -> <<parts[1], parts[2], parts[3], parts[2]>>
      [] Len(parts) = 4 -> <<parts[1], parts[2], parts[3], parts[4]>>
      [] OTHER -> <<>>

\* the four longhands of a margin or padding value, the shorthand itself when the
\* value has no 1 to 4 parts
Longhands(prefix, property, value, sides) ==
    IF sides = <<>> THEN << <<property, value>> >>
    ELSE << <<prefix \o "Top", sides[1]>>, <<prefix \o "Right", sides[2]>>,
            <<prefix \o "Bottom", sides[3]>>, <<prefix \o "Left", sides[4]>> >>

\* expand_shorthand: the (property, value) pairs
expand_shorthand(property, value) ==
    CASE property \in {"Margin", "Padding"} ->
           Longhands(property, property, value, FourSides(split_whitespace(value)))
      [] property = "Background" ->
           IF starts_with(value, <<"#">>) \/ starts_with(value, S_rgb)
              \/ from_name_exists(value)
           THEN << <<"BackgroundColor", value>> >>
           ELSE << <<property, value>> >>
      [] OTHER -> << <<property, value>> >>

\* one "property: value [!important]" piece of parse_declarations
Declarations(expanded, important) ==
    [k \in 1..Len(expanded) |->
        [property |-> expanded[k][1], value |-> expanded[k][2], important |-> important]]

DeclarationOf(property, raw, important) ==
    Declarations(expand_shorthand(property,
                                  IF important THEN trim(SubSeq(raw, 1, Len(raw) - 10))
                                  ELSE raw),
                 important)

DeclarationRaw(property_name, raw) ==
    DeclarationOf(from_name(property_name), raw, ends_with(to_lowercase(raw), S_important))

DeclarationAt(decl, colon_pos) ==
    IF decl = <<>> \/ colon_pos = 0 THEN <<>>
    ELSE DeclarationRaw(trim(SubSeq(decl, 1, colon_pos - 1)),
                        trim(SubSeq(decl, colon_pos + 1, Len(decl))))

DeclarationIn(decl) == DeclarationAt(decl, find(decl, ":"))

parse_declaration(piece) == DeclarationIn(trim(piece))

\* parse_declarations
parse_declarations(content) == ConcatMap(parse_declaration, split(content, ";"))

\* parse_rule without the "if selectors.is_empty() { return None; }" test
StyleRule_keeps_empty(selectors, declarations_str) ==
    <<[selectors |-> selectors, declarations |-> parse_declarations(declarations_str)]>>

\* parse_rule, the rule built from the parsed selectors
StyleRule(selectors, declarations_str) ==
    IF selectors = <<>> THEN <<>>
    ELSE <<[selectors |-> selectors,
            declarations |-> parse_declarations(declarations_str)]>>

\* parse_rule: <<rule>> for Some(rule), <<>> for None
parse_rule(selectors_str, declarations_str) ==
    LET ParseOne(piece) == parse_selector(trim(piece))
    IN  StyleRule(ConcatMap(ParseOne, split(selectors_str, ",")), declarations_str)

\* "Skip CSS comment": the position after the closing */, Len(css)+1 if unclosed
SkipComment(css, i) ==
    LET close == MinOr({k \in i..(Len(css) - 1) : css[k] = "*" /\ css[k + 1] = "/"}, 0)
    IN  IF close = 0 THEN Len(css) + 1 ELSE close + 2

\* one turn of the "while let Some(c) = chars.next()" loop of parse_stylesheet on
\* the character at index i; st.next is where the iterator stands afterwards
SheetStep(css, st, i) ==
    IF i < st.next THEN st
    ELSE LET c == css[i] IN
      CASE c = "{" ->
             IF ~st.in_block
             THEN [st EXCEPT !.in_block = TRUE, !.brace_depth = 1, !.next = i + 1]
             ELSE [st EXCEPT !.brace_depth = @ + 1, !.block_content = Append(@, c),
                             !.next = i + 1]
        [] c = "}" ->
             IF st.brace_depth - 1 = 0
             THEN [rules |-> st.rules \o parse_rule(st.current_selectors, st.block_content),
                   current_selectors |-> <<>>, in_block |-> FALSE, block_content |-> <<>>,
                   brace_depth |-> 0, next |-> i + 1]
             ELSE [st EXCEPT !.brace_depth = @ - 1, !.block_content = Append(@, c),
                             !.next = i + 1]
        [] c = "/" /\ i + 1 <= Len(css) /\ css[i + 1] = "*" ->
             [st EXCEPT !.next = SkipComment(css, i + 2)]
        [] OTHER ->
             IF st.in_block
             THEN [st EXCEPT !.block_content = Append(@, c), !.next = i + 1]
             ELSE [st EXCEPT !.current_selectors = Append(@, c), !.next = i + 1]

\* parse_stylesheet on the trimmed text
SheetRules(css) ==
    LET Step(st, i) == SheetStep(css, st, i)
    IN  FoldIdx(Step, [rules |-> <<>>, current_selectors |-> <<>>, in_block |-> FALSE,
                       block_content |-> <<>>, brace_depth |-> 0, next |-> 1],
                1, Len(css)).rules

\* parse_stylesheet
parse_stylesheet(text) == SheetRules(trim(text))

-----------------------------------------------------------------------------
(* The style context: src/src/css/context.rs *)

\* USER_AGENT_CSS
USER_AGENT_CSS == <<
      "\n","h","t","m","l",","," ","b","o","d","y",","," ","d","i","v",","," ","s","p","a","n",
      ","," ","p",","," ","h","1",","," ","h","2",","," ","h","3",","," ","h","4",","," ","h",
      "5",","," ","h","6",",","\n","u","l",","," ","o","l",","," ","l","i",","," ","t","a","b",
      "l","e",","," ","t","r",","," ","t","d",","," ","t","h",","," ","f","o","r","m",","," ",
      "f","i","e","l","d","s","e","t",","," ","l","e","g","e","n","d",",","\n","a","r","t","i",
      "c","l","e",","," ","a","s","i","d","e",","," ","f","o","o","t","e","r",","," ","h","e",
      "a","d","e","r",","," ","n","a","v",","," ","s","e","c","t","i","o","n",","," ","m","a",
      "i","n"," ","{","\n"," "," "," "," ","d","i","s","p","l","a","y",":"," ","b","l","o","c",
      "k",";","\n","}","\n","\n","b","o","d","y"," ","{","\n"," "," "," "," ","m","a","r","g",
      "i","n",":"," ","8","p","x",";","\n"," "," "," "," ","f","o","n","t","-","f","a","m","i",
      "l","y",":"," ","s","a","n","s","-","s","e","r","i","f",";","\n"," "," "," "," ","f","o",
      "n","t","-","s","i","z","e",":"," ","1","6","p","x",";","\n"," "," "," "," ","l","i","n",
      "e","-","h","e","i","g","h","t",":"," ","1",".","2",";","\n","}","\n","\n","h","1"," ",
      "{"," ","f","o","n","t","-","s","i","z","e",":"," ","2","e","m",";"," ","m","a","r","g",
      "i","n",":"," ","0",".","6","7","e","m"," ","0",";"," ","f","o","n","t","-","w","e","i",
      "g","h","t",":"," ","b","o","l","d",";"," ","}","\n","h","2"," ","{"," ","f","o","n","t",
      "-","s","i","z","e",":"," ","1",".","5","e","m",";"," ","m","a","r","g","i","n",":"," ",
      "0",".","8","3","e","m"," ","0",";"," ","f","o","n","t","-","w","e","i","g","h","t",":",
      " ","b","o","l","d",";"," ","}","\n","h","3"," ","{"," ","f","o","n","t","-","s","i","z",
      "e",":"," ","1",".","1","7","e","m",";"," ","m","a","r","g","i","n",":"," ","1","e","m",
      " ","0",";"," ","f","o","n","t","-","w","e","i","g","h","t",":"," ","b","o","l","d",";",
      " ","}","\n","h","4"," ","{"," ","m","a","r","g","i","n",":"," ","1",".","3","3","e","m",
      " ","0",";"," ","f","o","n","t","-","w","e","i","g","h","t",":"," ","b","o","l","d",";",
      " ","}","\n","h","5"," ","{"," ","f","o","n","t","-","s","i","z","e",":"," ","0",".","8",
      "3","e","m",";"," ","m","a","r","g","i","n",":"," ","1",".","6","7","e","m"," ","0",";",
      " ","f","o","n","t","-","w","e","i","g","h","t",":"," ","b","o","l","d",";"," ","}","\n",
      "h","6"," ","{"," ","f","o","n","t","-","s","i","z","e",":"," ","0",".","6","7","e","m",
      ";"," ","m","a","r","g","i","n",":"," ","2",".","3","3","e","m"," ","0",";"," ","f","o",
      "n","t","-","w","e","i","g","h","t",":"," ","b","o","l","d",";"," ","}","\n","\n","p"," ",
      "{"," ","m","a","r","g","i","n",":"," ","1","e","m"," ","0",";"," ","}","\n","\n","a"," ",
      "{"," ","c","o","l","o","r",":"," ","b","l","u","e",";"," ","t","e","x","t","-","d","e",
      "c","o","r","a","t","i","o","n",":"," ","u","n","d","e","r","l","i","n","e",";"," ","}",
      "\n","\n","u","l",","," ","o","l"," ","{"," ","p","a","d","d","i","n","g","-","l","e","f",
      "t",":"," ","4","0","p","x",";"," ","m","a","r","g","i","n",":"," ","1","e","m"," ","0",
      ";"," ","}","\n","l","i"," ","{"," ","d","i","s","p","l","a","y",":"," ","l","i","s","t",
      "-","i","t","e","m",";"," ","}","\n","\n","s","t","r","o","n","g",","," ","b"," ","{"," ",
      "f","o","n","t","-","w","e","i","g","h","t",":"," ","b","o","l","d",";"," ","}","\n","e",
      "m",","," ","i"," ","{"," ","f","o","n","t","-","s","t","y","l","e",":"," ","i","t","a",
      "l","i","c",";"," ","}","\n","\n","p","r","e",","," ","c","o","d","e"," ","{"," ","f","o",
      "n","t","-","f","a","m","i","l","y",":"," ","m","o","n","o","s","p","a","c","e",";"," ",
      "}","\n","\n","i","m","g"," ","{"," ","d","i","s","p","l","a","y",":"," ","i","n","l","i",
      "n","e","-","b","l","o","c","k",";"," ","}","\n","\n","t","a","b","l","e"," ","{"," ","b",
      "o","r","d","e","r","-","c","o","l","l","a","p","s","e",":"," ","c","o","l","l","a","p",
      "s","e",";"," ","}","\n","t","d",","," ","t","h"," ","{"," ","p","a","d","d","i","n","g",
      ":"," ","1","p","x",";"," ","}","\n","\n","i","n","p","u","t",","," ","t","e","x","t","a",
      "r","e","a",","," ","s","e","l","e","c","t",","," ","b","u","t","t","o","n"," ","{","\n",
      " "," "," "," ","d","i","s","p","l","a","y",":"," ","i","n","l","i","n","e","-","b","l",
      "o","c","k",";","\n","}","\n","\n","[","h","i","d","d","e","n","]"," ","{"," ","d","i",
      "s","p","l","a","y",":"," ","n","o","n","e",";"," ","}","\n" >>

\* StyleContext::new: ua_rules
ua_rules == parse_stylesheet(USER_AGENT_CSS)

\* Display::parse: the variant, "NoDisplay" for None
display_parse(s) ==
    LET v == to_lowercase(trim(s))
    IN  CASE v = <<"b","l","o","c","k">> -> "Block"
          [] v = <<"i","n","l","i","n","e">> -> "Inline"
          [] v = <<"i","n","l","i","n","e","-","b","l","o","c","k">> -> "InlineBlock"
          [] v = <<"f","l","e","x">> -> "Flex"
          [] v = <<"g","r","i","d">> -> "Grid"
          [] v = <<"n","o","n","e">> -> "None"
          [] v = <<"c","o","n","t","e","n","t","s">> -> "Contents"
          [] OTHER -> "NoDisplay"

\* ComputedStyle::get: <<value>> for Some(value), <<>> for None
get(st, property) == IF property \in DOMAIN st THEN <<st[property].value>> ELSE <<>>

\* ComputedStyle::display
display(st) ==
    LET v == get(st, "Display")
    IN  IF v = <<>> THEN "Inline"
        ELSE IF display_parse(v[1]) = "NoDisplay" THEN "Inline"
        ELSE display_parse(v[1])

\* a plausible slip: the missing-key test inverted
inherit_from_present(st, parent) ==
    [p \in DOMAIN st |-> IF p \in DOMAIN parent /\ is_inherited(p) THEN parent[p] ELSE st[p]]

\* ComputedStyle::inherit_from
inherit_from(st, parent) ==
    [p \in DOMAIN st \cup {q \in DOMAIN parent : is_inherited(q)} |->
        IF p \in DOMAIN st THEN st[p] ELSE parent[p]]

\* ComputedStyle::apply_defaults
apply_defaults(st, is_block) ==
    IF "Display" \notin DOMAIN st
    THEN set(st, "Display",
             StyleProperty(IF is_block THEN <<"b","l","o","c","k">>
                           ELSE <<"i","n","l","i","n","e">>, <<0, 0, 0, 0>>, FALSE))
    ELSE st

\* is_block_element
is_block_element(tag) ==
    tag \in
    {<<"h","t","m","l">>,<<"b","o","d","y">>,<<"d","i","v">>,<<"p">>,<<"h","1">>,
     <<"h","2">>,<<"h","3">>,<<"h","4">>,<<"h","5">>,<<"h","6">>,<<"u","l">>,<<"o","l">>,
     <<"l","i">>,<<"t","a","b","l","e">>,<<"t","r">>,<<"f","o","r","m">>,
     <<"f","i","e","l","d","s","e","t">>,<<"a","r","t","i","c","l","e">>,
     <<"a","s","i","d","e">>,<<"f","o","o","t","e","r">>,<<"h","e","a","d","e","r">>,
     <<"n","a","v">>,<<"s","e","c","t","i","o","n">>,<<"m","a","i","n">>,
     <<"b","l","o","c","k","q","u","o","t","e">>,<<"p","r","e">>,
     <<"f","i","g","u","r","e">>,<<"f","i","g","c","a","p","t","i","o","n">>,<<"h","r">>}

\* StyleContext::apply_matching_rule
apply_matching_rule(ns, node_id, rule, st) ==
    LET BySelector(acc, selector) ==
            LET SetDecl(a, decl) ==
                    set(a, decl.property,
                        StyleProperty(decl.value, selector.specificity, decl.important))
            IN  IF matches(ns, selector, node_id)
                THEN FoldSeq(SetDecl, acc, rule.declarations)
                ELSE acc
    IN  FoldSeq(BySelector, st, rule.selectors)

\* the "property: value" pieces of a style attribute, as apply_inline_styles reads them
InlinePieceAt(decl, colon_pos) ==
    IF colon_pos = 0 THEN <<>>
    ELSE <<[property |-> from_name(trim(SubSeq(decl, 1, colon_pos - 1))),
            value |-> trim(SubSeq(decl, colon_pos + 1, Len(decl)))]>>

InlinePiece(decl) == InlinePieceAt(decl, find(decl, ":"))

inline_declarations(inline) ==
    LET One(piece) == InlinePiece(trim(piece))
    IN  ConcatMap(One, split(inline, ";"))

\* a plausible slip: the style attribute ranked like a class selector
apply_inline_styles_as_class(inline, st) ==
    LET SetDecl(a, decl) ==
            set(a, decl.property, StyleProperty(decl.value, <<0, 0, 1, 0>>, FALSE))
    IN  FoldSeq(SetDecl, st, inline_declarations(inline))

\* StyleContext::apply_inline_styles
apply_inline_styles(inline, st) ==
    LET SetDecl(a, decl) ==
            set(a, decl.property, StyleProperty(decl.value, <<1, 0, 0, 0>>, FALSE))
    IN  FoldSeq(SetDecl, st, inline_declarations(inline))

\* compute_styles_recursive, "Apply UA rules" and "Apply author rules"
apply_rules(ns, node_id, rules, st) ==
    LET Rule(acc, rule) == apply_matching_rule(ns, node_id, rule, acc)
    IN  FoldSeq(Rule, st, rules)

\* compute_styles_recursive, "Apply inline styles"
with_inline(node, st) ==
    IF has_attribute(node, S_style)
    THEN apply_inline_styles(node.attributes[S_style], st)
    ELSE st

\* compute_styles_recursive, "Inherit from parent"; parent_style is <<style>> for
\* Some(style) and <<>> for None
with_parent(st, parent_style) ==
    IF parent_style # <<>> THEN inherit_from(st, parent_style[1]) ELSE st

\* compute_styles_recursive, the body of "if node.is_element()"
element_style(author, ns, node_id, parent_style) ==
    apply_defaults(
        with_parent(
            with_inline(ns[node_id + 1],
                        apply_rules(ns, node_id, author,
                                    apply_rules(ns, node_id, ua_rules, NewStyle))),
            parent_style),
        is_block_element(ns[node_id + 1].tag_name))

\* computed_cache.insert(node_id.index(), style.clone())
cache_insert(cache, node_id, st) ==
    [n \in DOMAIN cache \cup {node_id} |-> IF n = node_id THEN st ELSE cache[n]]

\* StyleContext::compute_styles_recursive: the cache after the pass below node_id;
\* compute_children is its part from "Cache the computed style" on
RECURSIVE compute_styles_recursive(_, _, _, _, _)
RECURSIVE compute_children(_, _, _, _, _)
compute_children(author, ns, cache, node_id, st) ==
    LET Child(acc, child_id) == compute_styles_recursive(author, ns, acc, child_id, <<st>>)
    IN  IF valid(ns, node_id)
        THEN FoldSeq(Child, cache_insert(cache, node_id, st), ns[node_id + 1].children)
        ELSE cache_insert(cache, node_id, st)

compute_styles_recursive(author, ns, cache, node_id, parent_style) ==
    compute_children(author, ns, cache, node_id,
                     IF valid(ns, node_id) /\ is_element(ns[node_id + 1])
                     THEN element_style(author, ns, node_id, parent_style)
                     ELSE NewStyle)

\* Document::collect_elements_by_tag
RECURSIVE collect_elements_by_tag(_, _, _)
collect_elements_by_tag(ns, node_id, tag) ==
    LET Below(child_id) == collect_elements_by_tag(ns, child_id, tag)
    IN  IF ~valid(ns, node_id) THEN <<>>
        ELSE (IF is_element(ns[node_id + 1]) /\ ns[node_id + 1].tag_name = tag
              THEN <<node_id>> ELSE <<>>)
             \o ConcatMap(Below, ns[node_id + 1].children)

\* Document::get_elements_by_tag_name
get_elements_by_tag_name(ns, tag) == collect_elements_by_tag(ns, 0, to_lowercase(tag))

\* Document::collect_text_content
RECURSIVE collect_text_content(_, _)
collect_text_content(ns, node_id) ==
    LET Below(child_id) == collect_text_content(ns, child_id)
    IN  IF ~valid(ns, node_id) THEN <<>>
        ELSE (IF ns[node_id + 1].kind = "text" THEN ns[node_id + 1].content ELSE <<>>)
             \o ConcatMap(Below, ns[node_id + 1].children)

\* Document::get_text_content
get_text_content(ns, node_id) == collect_text_content(ns, node_id)

EmptyCache == [n \in {} |-> <<>>]

\* a plausible slip: the cache left as it was
add_stylesheet_keep_cache(ctx, css) ==
    [author_rules |-> ctx.author_rules \o parse_stylesheet(css),
     computed_cache |-> ctx.computed_cache]

\* StyleContext::add_stylesheet
add_stylesheet(ctx, css) ==
    [author_rules |-> ctx.author_rules \o parse_stylesheet(css),
     computed_cache |-> EmptyCache]

\* StyleContext::clear_author_styles
clear_author_styles(ctx) == [author_rules |-> <<>>, computed_cache |-> EmptyCache]

\* the rules apply_styles reads from the <style> elements of the document
style_element_rules(ns) ==
    LET Sheet(style_id) == parse_stylesheet(get_text_content(ns, style_id))
    IN  ConcatMap(Sheet, get_elements_by_tag_name(ns, S_style))

\* a plausible slip: the styles computed before the <style> elements are read
apply_styles_compute_first(ctx, ns) ==
    [author_rules |-> ctx.author_rules \o style_element_rules(ns),
     computed_cache |-> compute_styles_recursive(ctx.author_rules, ns, EmptyCache, 0, <<>>)]

\* apply_styles, "Compute styles for all nodes", on the context the <style>
\* elements were added to
compute_all(extended, ns) ==
    [author_rules |-> extended.author_rules,
     computed_cache |->
         compute_styles_recursive(extended.author_rules, ns, extended.computed_cache,
                                  0, <<>>)]

\* StyleContext::apply_styles
apply_styles(ctx, ns) ==
    LET Add(c, style_id) == add_stylesheet(c, get_text_content(ns, style_id))
    IN  compute_all(FoldSeq(Add, [author_rules |-> ctx.author_rules,
                                  computed_cache |-> EmptyCache],
                            get_elements_by_tag_name(ns, S_style)),
                    ns)

\* StyleContext::get_computed_style: <<style>> for Some(style), <<>> for None
get_computed_style(cache, node_id) ==
    IF node_id \in DOMAIN cache THEN <<cache[node_id]>> ELSE <<>>

-----------------------------------------------------------------------------
(* A page is loaded, then stylesheets are added, cleared and applied:
   Tab::navigate and the StyleContext operations *)

S_inline_style == <<"c","o","l","o","r",":"," ","r","e","d",";"," ","d","i","s","p","l","a","y",":"," ","i","n","l","i","n","e">>

\* the elements the loaded pages are built from
CascadeTemplates ==
    {[tag |-> S_div, attrs |-> NoAttrs],
     [tag |-> S_p, attrs |-> [n \in {S_id, S_style} |-> IF n = S_id THEN S_x ELSE S_inline_style]],
     [tag |-> S_li, attrs |-> NoAttrs],
     [tag |-> S_style, attrs |-> NoAttrs]}

\* the stylesheet texts, in <style> elements and given to add_stylesheet
SheetTexts ==
    << <<"p"," ","{"," ","c","o","l","o","r",":"," ","b","l","u","e"," ","!","i","m","p","o","r","t","a","n","t"," ","}">>,
       <<"p","#","x",","," ","d","i","v"," ","{"," ","c","o","l","o","r",":"," ","g","r","e","e","n",";"," ","d","i","s","p","l","a","y",":"," ","f","l","e","x"," ","}">> >>

ParsedSheets == [k \in 1..Len(SheetTexts) |-> parse_stylesheet(SheetTexts[k])]

ctx == [author_rules |-> author_rules, computed_cache |-> computed_cache]

\* parse_html returns the document
ParseHtmlDone ==
    /\ ~loaded
    /\ loaded' = TRUE
    /\ UNCHANGED <<docVars, appends, lastMatch, style, applied, ctxVars, extVars>>

Snapshot == [op |-> lastOp, cache |-> computed_cache]

\* the StyleContext after an operation; Snapshot keeps what it was before
SetContext(after, op) ==
    /\ author_rules' = after.author_rules
    /\ computed_cache' = after.computed_cache
    /\ lastOp' = op
    /\ prev_cache' = Snapshot
    /\ UNCHANGED <<docVars, appends, lastMatch, style, applied, loaded, extVars>>

AddStylesheet ==
    /\ loaded
    /\ \E k \in 1..Len(SheetTexts) :
          /\ Len(author_rules) + Len(ParsedSheets[k]) <= MaxAuthorRules
          /\ SetContext(add_stylesheet(ctx, SheetTexts[k]), "add_stylesheet")

ClearAuthorStyles ==
    /\ loaded
    /\ SetContext(clear_author_styles(ctx), "clear_author_styles")

ApplyStyles ==
    /\ loaded
    /\ Len(author_rules) + Len(style_element_rules(nodes)) <= MaxAuthorRules
    /\ SetContext(apply_styles(ctx, nodes), "apply_styles")

CascadeNext ==
    \/ ConvertElement(CascadeTemplates)
    \/ ConvertText({SheetTexts[1]})
    \/ ParseHtmlDone
    \/ AddStylesheet
    \/ ClearAuthorStyles
    \/ ApplyStyles

SpecCascade == Init /\ [][CascadeNext]_vars

ElementIds == {n \in NodeIds : is_element(nodes[n + 1])}

\* the declarations of the rules that have a selector matching node n
MatchingDeclarations(rules, n) ==
    UNION {Range(rules[r].declarations) :
             r \in {q \in DOMAIN rules :
                      \E sel \in Range(rules[q].selectors) : matches(nodes, sel, n)}}

\* every PropertyId
AllProperties == {PropertyNames[k][2] : k \in 1..Len(PropertyNames)} \cup {"Unknown"}

StylesheetDeclarations(n) ==
    MatchingDeclarations(ua_rules, n) \cup MatchingDeclarations(author_rules, n)

InlineDeclarations(n) ==
    IF has_attribute(nodes[n + 1], S_style)
    THEN inline_declarations(nodes[n + 1].attributes[S_style])
    ELSE <<>>

\* the value the style attribute of n gives property q: that of its last declaration of q
InlineValue(n, q) ==
    LET decls == InlineDeclarations(n)
        last == MaxOr({k \in 1..Len(decls) : decls[k].property = q}, 0)
    IN  decls[last].value

\* C5: after apply_styles, for every element and every property its style attribute
\* declares, the computed value is the style attribute's when no matching stylesheet
\* declaration of the property is !important, and otherwise it is the value of a
\* matching !important stylesheet declaration.
C5_InlineStyleRank ==
    lastOp = "apply_styles" =>
      \A n \in ElementIds :
        \A d \in Range(InlineDeclarations(n)) :
          LET q == d.property
              imp == {e \in StylesheetDeclarations(n) : e.property = q /\ e.important}
              st == computed_cache[n]
          IN  IF imp = {}
              THEN get(st, q) = <<InlineValue(n, q)>>
              ELSE /\ q \in DOMAIN st
                   /\ st[q].important
                   /\ st[q].value \in {e.value : e \in imp}

\* one element where the style attribute beats an id selector's normal declaration
\* for one property and loses to an !important declaration for another
C5_Witness ==
    /\ lastOp = "apply_styles"
    /\ \E n \in ElementIds :
          /\ {"Display", "Color"} \subseteq {d.property : d \in Range(InlineDeclarations(n))}
          /\ \E e \in MatchingDeclarations(author_rules, n) :
                /\ e.property = "Display" /\ ~e.important
                /\ e.value # InlineValue(n, "Display")
                /\ get(computed_cache[n], "Display") = <<InlineValue(n, "Display")>>
          /\ \E e \in MatchingDeclarations(author_rules, n) :
                /\ e.property = "Color" /\ e.important
                /\ e.value # InlineValue(n, "Color")
                /\ get(computed_cache[n], "Color") = <<e.value>>

\* C6: when apply_styles runs directly after apply_styles, every node has a computed
\* style after the second run exactly when it had one after the first, and every
\* property has the same computed value in both.
C6_ApplyStylesIdempotent ==
    (lastOp = "apply_styles" /\ prev_cache.op = "apply_styles") =>
      \A n \in NodeIds :
        LET now == get_computed_style(computed_cache, n)
            before == get_computed_style(prev_cache.cache, n)
        IN  /\ (now = <<>>) <=> (before = <<>>)
            /\ now # <<>> /\ before # <<>> =>
                 \A q \in AllProperties : get(now[1], q) = get(before[1], q)

\* two runs in a row on a page whose <style> element has a rule that matches an element
C6_Witness ==
    /\ lastOp = "apply_styles"
    /\ prev_cache.op = "apply_styles"
    /\ style_element_rules(nodes) # <<>>
    /\ \E n \in ElementIds :
          \E e \in MatchingDeclarations(style_element_rules(nodes), n) :
             get(computed_cache[n], e.property) = <<e.value>>

\* C7: after add_stylesheet or clear_author_styles, and until apply_styles runs,
\* get_computed_style returns None for every node.
C7_MutationEmptiesCache ==
    lastOp \in {"add_stylesheet", "clear_author_styles"} =>
      \A n \in NodeIds : get_computed_style(computed_cache, n) = <<>>

\* add_stylesheet has run on a context that held computed styles
C7_Witness ==
    /\ lastOp = "add_stylesheet"
    /\ prev_cache.op = "apply_styles"
    /\ \E n \in ElementIds : get_computed_style(prev_cache.cache, n) # <<>>

Declares(n, q) ==
    \/ \E e \in StylesheetDeclarations(n) : e.property = q
    \/ \E d \in Range(InlineDeclarations(n)) : d.property = q

\* C9: after apply_styles, for every element whose parent is an element and every
\* inherited property that no matching rule and no inline declaration sets on the
\* element, the element's computed value is its parent's (absent when the parent's is).
C9_InheritedFromParent ==
    lastOp = "apply_styles" =>
      \A n \in ElementIds :
        LET p == ParentOf(nodes, n)
        IN  (p \in ElementIds) =>
              \A q \in {x \in AllProperties : is_inherited(x)} :
                ~Declares(n, q) =>
                  get(computed_cache[n], q) = get(computed_cache[p], q)

\* an element without a colour of its own under an element that has one
C9_Witness ==
    /\ lastOp = "apply_styles"
    /\ \E n \in ElementIds :
          /\ ParentOf(nodes, n) \in ElementIds
          /\ ~Declares(n, "Color")
          /\ get(computed_cache[ParentOf(nodes, n)], "Color") # <<>>
          /\ get(computed_cache[n], "Color") = get(computed_cache[ParentOf(nodes, n)], "Color")

\* C10: after apply_styles, an element of a block-level tag with no hidden attribute
\* and no author or inline display declaration has display block.
C10_BlockTagsDisplayBlock ==
    lastOp = "apply_styles" =>
      \A n \in ElementIds :
        (/\ is_block_element(nodes[n + 1].tag_name)
         /\ ~has_attribute(nodes[n + 1], S_hidden)
         /\ ~\E e \in MatchingDeclarations(author_rules, n) : e.property = "Display"
         /\ ~\E d \in Range(InlineDeclarations(n)) : d.property = "Display")
        => display(computed_cache[n]) = "Block"


-----------------------------------------------------------------------------
(* Shorthand expansion by parse_stylesheet *)

ShorthandMaxParts == 4

S_margin == <<"m","a","r","g","i","n">>
S_padding == <<"p","a","d","d","i","n","g">>

\* the value tokens written in the declarations
ValueTokens == {<<"0">>, <<"1","p","x">>, <<"a","u","t","o">>}

\* the tokens written one after the other, sep before each but the first
JoinValues(values, sep) ==
    LET Piece(k) == IF k = 1 THEN values[k] ELSE sep \o values[k]
    IN  ConcatMap(Piece, [k \in 1..Len(values) |-> k])

\* the sheet "a { name: v1 .. vn [!important] }"
ShorthandSheet(name, values, sep, important) ==
    <<"a", " ", "{", " ">> \o name \o <<":", " ">> \o JoinValues(values, sep)
    \o (IF important THEN <<" ">> \o S_important ELSE <<>>) \o <<";", " ", "}">>

\* parse_stylesheet called on a sheet with one margin or padding declaration
ParseShorthand ==
    /\ call.fn = "none"
    /\ \E name \in {S_margin, S_padding}, n \in 1..ShorthandMaxParts, important \in BOOLEAN,
          sep \in {<<" ">>, <<"\t", " ">>} :
         \E values \in [1..n -> ValueTokens] :
            call' = [fn |-> "parse_stylesheet", name |-> name, values |-> values,
                     important |-> important,
                     result |-> parse_stylesheet(ShorthandSheet(name, values, sep,
                                                                important))]
    /\ UNCHANGED <<docVars, appends, coreVars, layout, inline_ctx, sessVars>>

SpecShorthand == Init /\ [][ParseShorthand]_vars

\* the longhand declarations CSS prescribes for v1..vn: top = v1, right = v2 or v1,
\* bottom = v3 or v1, left = v4 or the right value
ExpectedLonghands(prefix, v, important) ==
    LET n == Len(v)
        right == IF n >= 2 THEN v[2] ELSE v[1]
        Decl(side, value) ==
            [property |-> prefix \o side, value |-> value, important |-> important]
    IN  << Decl("Top", v[1]), Decl("Right", right),
           Decl("Bottom", IF n >= 3 THEN v[3] ELSE v[1]),
           Decl("Left", IF n = 4 THEN v[4] ELSE right) >>

\* C11: a margin or padding declaration with one to four values becomes exactly
\* the four longhand declarations top, right, bottom, left with the values
\* (v1,v1,v1,v1), (v1,v2,v1,v2), (v1,v2,v3,v2), (v1,v2,v3,v4), each carrying the
\* !important flag of the shorthand.
C11_ShorthandExpansion ==
    call.fn = "parse_stylesheet" =>
       /\ Len(call.result) = 1
       /\ call.result[1].declarations =
            ExpectedLonghands(from_name(call.name), call.values, call.important)

C11_Witness ==
    /\ call.fn = "parse_stylesheet"
    /\ Len(call.values) = 3
    /\ call.values[2] # call.values[3]
    /\ call.important
    /\ Len(call.result) = 1
    /\ Len(call.result[1].declarations) = 4

-----------------------------------------------------------------------------
(* Lengths: src/src/css/values.rs.  An f32 is written in hundredths. *)

Scale == 100

DigitString == <<"0","1","2","3","4","5","6","7","8","9">>

DigitValue(c) == (CHOOSE d \in 1..10 : DigitString[d] = c) - 1

\* the number a string of decimal digits writes
Decimal(ds) ==
    LET Add(acc, c) == acc * 10 + DigitValue(c)
    IN  FoldSeq(Add, 0, ds)

\* the value of the digits int "." frac, negated after a minus sign
SignedDecimal(negative, int, frac) ==
    IF /\ Range(int) \cup Range(frac) \subseteq Digits
       /\ Len(int) + Len(frac) >= 1
       /\ Len(frac) <= 2
    THEN << (IF negative THEN 0 - 1 ELSE 1)
            * (Decimal(int) * Scale + Decimal(SubSeq(frac \o <<"0", "0">>, 1, 2))) >>
    ELSE <<>>

UnsignedAt(negative, digits, dot) ==
    IF dot = 0 THEN SignedDecimal(negative, digits, <<>>)
    ELSE SignedDecimal(negative, SubSeq(digits, 1, dot - 1),
                       SubSeq(digits, dot + 1, Len(digits)))

Unsigned(negative, digits) == UnsignedAt(negative, digits, find(digits, "."))

\* str::parse::<f32> on decimal notation with at most two fraction digits:
\* <<v>> for Ok(v), <<>> for Err
parse_f32(s) ==
    IF s # <<>> /\ s[1] \in {"+", "-"} THEN Unsigned(s[1] = "-", Tail(s))
    ELSE Unsigned(FALSE, s)

\* str::strip_suffix: <<rest>> for Some(rest), <<>> for None
strip_suffix(s, suffix) ==
    IF ends_with(s, suffix) THEN <<SubSeq(s, 1, Len(s) - Len(suffix))>> ELSE <<>>

Length(unit, value) == [unit |-> unit, value |-> value]

\* v.parse().ok().map(Length::Unit)
NumberAs(unit, parsed) == IF parsed = <<>> THEN <<>> ELSE <<Length(unit, parsed[1])>>

\* the chain of "if let Some(v) = s.strip_suffix(..)" of Length::parse: the first
\* suffix of the list that s ends with decides
Suffixes ==
    << <<<<"p","x">>, "Px">>, <<<<"e","m">>, "Em">>, <<<<"r","e","m">>, "Rem">>,
       <<<<"%">>, "Percent">>, <<<<"v","w">>, "Vw">>, <<<<"v","h">>, "Vh">> >>

SuffixAt(s, k) ==
    IF k = 0 THEN NumberAs("Px", parse_f32(s))
    ELSE NumberAs(Suffixes[k][2], parse_f32(strip_suffix(s, Suffixes[k][1])[1]))

WithSuffix(s) ==
    SuffixAt(s, MinOr({k \in 1..Len(Suffixes) : strip_suffix(s, Suffixes[k][1]) # <<>>}, 0))

ParseTrimmedLength(s) ==
    IF s = <<"a","u","t","o">> THEN <<Length("Auto", 0)>>
    ELSE IF s = <<"0">> THEN <<Length("Zero", 0)>>
    ELSE WithSuffix(s)

\* Length::parse: <<length>> for Some(length), <<>> for None
length_parse(s) == ParseTrimmedLength(trim(s))

-----------------------------------------------------------------------------
(* Length::parse on numbers with and without a unit *)

\* the numbers written, each with its value in hundredths
NumberTexts ==
    { <<<<"1">>, 100>>, <<<<"2">>, 200>>, <<<<"5">>, 500>>, <<<<"8">>, 800>>,
      <<<<"1","0">>, 1000>>, <<<<"1","6">>, 1600>>, <<<<"2","0">>, 2000>>,
      <<<<"1","0","0">>, 10000>>, <<<<"1",".","5">>, 150>>, <<<<"0",".","5">>, 50>>,
      <<<<".","5">>, 50>>, <<<<"0",".","6","7">>, 67>>, <<<<"2",".","5">>, 250>>,
      <<<<"2",".">>, 200>>, <<<<"-","1">>, 0 - 100>>, <<<<"-","1","0">>, 0 - 1000>>,
      <<<<"+","3">>, 300>> }

\* the unit suffixes with the variant each one names, the empty suffix last
UnitTexts ==
    { <<<<"p","x">>, "Px">>, <<<<"e","m">>, "Em">>, <<<<"r","e","m">>, "Rem">>,
      <<<<"%">>, "Percent">>, <<<<"v","w">>, "Vw">>, <<<<"v","h">>, "Vh">>,
      <<<<>>, "Px">> }

LengthCall(text, expected) ==
    /\ call.fn = "none"
    /\ call' = [fn |-> "Length::parse", text |-> text, expected |-> expected,
                result |-> length_parse(text)]
    /\ UNCHANGED <<docVars, appends, coreVars, layout, inline_ctx, sessVars>>

\* Length::parse called on a number followed by a unit, on "auto" and on "0"
ParseLength ==
    \/ \E n \in NumberTexts, u \in UnitTexts :
          LengthCall(n[1] \o u[1], Length(u[2], n[2]))
    \/ LengthCall(<<"a","u","t","o">>, Length("Auto", 0))
    \/ LengthCall(<<"0">>, Length("Zero", 0))

SpecLength == Init /\ [][ParseLength]_vars

\* C18: Length::parse maps a number followed by px, em, rem, %, vw or vh to the
\* variant Px, Em, Rem, Percent, Vw or Vh holding that number, "auto" to Auto,
\* a bare "0" to Zero and a non-zero number without a suffix to Px.
C18_LengthUnits ==
    call.fn = "Length::parse" => call.result = <<call.expected>>

-----------------------------------------------------------------------------
(* The box model: src/src/layout/box_model.rs *)

Rect(x, y, w, h) == [x |-> x, y |-> y, width |-> w, height |-> h]

\* Rect::expand
expand(r, t, rt, b, l) == Rect(r.x - l, r.y - t, r.width + l + rt, r.height + t + b)

\* Rect::bottom
rect_bottom(r) == r.y + r.height

EdgeSizes(t, rt, b, l) == [top |-> t, right |-> rt, bottom |-> b, left |-> l]

horizontal(e) == e.left + e.right

vertical(e) == e.top + e.bottom

\* Dimensions::new
NewDimensions ==
    [content |-> Rect(0, 0, 0, 0), padding |-> EdgeSizes(0, 0, 0, 0),
     border |-> EdgeSizes(0, 0, 0, 0), margin |-> EdgeSizes(0, 0, 0, 0)]

ExpandBy(r, e) == expand(r, e.top, e.right, e.bottom, e.left)

padding_box(d) == ExpandBy(d.content, d.padding)

border_box(d) == ExpandBy(padding_box(d), d.border)

margin_box(d) == ExpandBy(border_box(d), d.margin)

total_height(d) ==
    d.content.height + vertical(d.padding) + vertical(d.border) + vertical(d.margin)

-----------------------------------------------------------------------------
(* The typed accessors of ComputedStyle: src/src/css/style.rs *)

\* self.get(property).and_then(Length::parse)
LengthOf(value) == IF value = <<>> THEN <<>> ELSE length_parse(value[1])

\* ... .unwrap_or(Length::Zero)
OrZero(parsed) == IF parsed = <<>> THEN Length("Zero", 0) ELSE parsed[1]

FourLengths(st, prefix) ==
    << OrZero(LengthOf(get(st, prefix \o "Top"))),
       OrZero(LengthOf(get(st, prefix \o "Right"))),
       OrZero(LengthOf(get(st, prefix \o "Bottom"))),
       OrZero(LengthOf(get(st, prefix \o "Left"))) >>

width(st) == LengthOf(get(st, "Width"))

height(st) == LengthOf(get(st, "Height"))

margin(st) == FourLengths(st, "Margin")

padding(st) == FourLengths(st, "Padding")

-----------------------------------------------------------------------------
(* The layout tree: src/src/layout/tree.rs *)

ViewportWidth == 1920 * Scale

LineHeight == 20 * Scale

\* length_to_px
length_to_px(length) ==
    CASE length.unit = "Px" -> length.value
      [] length.unit \in {"Em", "Rem"} -> length.value * 16
      [] OTHER -> 0

\* LayoutNode::new; LayoutId(i) is the index i, the node is ln[i + 1]
LayoutNode(id, dom_node, box_type) ==
    [id |-> id, dom_node |-> dom_node, box_type |-> box_type,
     dimensions |-> NewDimensions, children |-> <<>>, parent |-> None, text |-> <<>>]

\* LayoutTree::create_node
create_node(ln, dom_node, box_type) ==
    Append(ln, LayoutNode(Len(ln), dom_node, box_type))

PxEdges(lengths) ==
    EdgeSizes(length_to_px(lengths[1]), length_to_px(lengths[2]),
              length_to_px(lengths[3]), length_to_px(lengths[4]))

PxOr(parsed, old) == IF parsed = <<>> THEN old ELSE length_to_px(parsed[1])

\* LayoutTree::apply_style_dimensions, on the node itself
apply_style_dimensions(node, st) ==
    [node EXCEPT !.dimensions.margin = PxEdges(margin(st)),
                 !.dimensions.padding = PxEdges(padding(st)),
                 !.dimensions.content.width = PxOr(width(st), @),
                 !.dimensions.content.height = PxOr(height(st), @)]

\* build_recursive with the children of a display:contents element left out
BoxTypeOf_contents_dropped(node, st) ==
    CASE node.kind = "element" ->
           IF st = <<>> THEN "Block"
           ELSE (CASE display(st[1]) \in {"Block", "Flex", "Grid"} -> "Block"
                   [] display(st[1]) = "Inline" -> "Inline"
                   [] display(st[1]) = "InlineBlock" -> "InlineBlock"
                   [] OTHER -> "return")
      [] node.kind = "text" -> "Text"
      [] OTHER -> "return"

\* build_recursive, "Determine box type": "return" where the code returns and
\* "contents" where it only descends; st is <<style>> or <<>>
BoxTypeOf(node, st) ==
    CASE node.kind = "element" ->
           IF st = <<>> THEN "Block"
           ELSE (CASE display(st[1]) \in {"Block", "Flex", "Grid"} -> "Block"
                   [] display(st[1]) = "Inline" -> "Inline"
                   [] display(st[1]) = "InlineBlock" -> "InlineBlock"
                   [] display(st[1]) = "None" -> "return"
                   [] display(st[1]) = "Contents" -> "contents")
      [] node.kind = "text" -> "Text"
      [] OTHER -> "return"

\* build_recursive from "Create layout node" to "Add to parent": the new node
WithText(made, node) ==
    IF made.box_type = "Text" THEN [made EXCEPT !.text = <<node.content>>] ELSE made

WithStyle(made, st) == IF st = <<>> THEN made ELSE apply_style_dimensions(made, st[1])

Attach(ln, made, parent_id) ==
    [Append(ln, [made EXCEPT !.parent = parent_id])
        EXCEPT ![parent_id + 1].children = Append(@, made.id)]

\* LayoutTree::build_recursive: the layout nodes after the walk below dom_id
RECURSIVE build_recursive(_, _, _, _, _)
BuildChildren(ln, ns, cache, dom_id, under) ==
    LET Child(acc, child_id) == build_recursive(acc, ns, cache, child_id, under)
    IN  FoldSeq(Child, ln, ns[dom_id + 1].children)

BuildBox(ln, ns, cache, dom_id, parent_id, st, box_type) ==
    CASE box_type = "return" -> ln
      [] box_type = "contents" -> BuildChildren(ln, ns, cache, dom_id, parent_id)
      [] OTHER ->
           BuildChildren(
               Attach(ln,
                      WithStyle(WithText(LayoutNode(Len(ln), dom_id, box_type),
                                         ns[dom_id + 1]), st),
                      parent_id),
               ns, cache, dom_id, Len(ln))

BuildNode(ln, ns, cache, dom_id, parent_id, st) ==
    IF st # <<>> /\ display(st[1]) = "None" THEN ln
    ELSE BuildBox(ln, ns, cache, dom_id, parent_id, st, BoxTypeOf(ns[dom_id + 1], st))

build_recursive(ln, ns, cache, dom_id, parent_id) ==
    IF ~valid(ns, dom_id) THEN ln
    ELSE BuildNode(ln, ns, cache, dom_id, parent_id, get_computed_style(cache, dom_id))

\* LayoutTree::calculate_block_width
ParentWidth(ln, id) ==
    IF ln[id + 1].parent # None /\ ln[id + 1].parent < Len(ln)
    THEN ln[ln[id + 1].parent + 1].dimensions.content.width
    ELSE ViewportWidth

AutoWidth(d, parent_width) ==
    IF d.content.width = 0
    THEN parent_width - horizontal(d.margin) - horizontal(d.padding) - horizontal(d.border)
    ELSE d.content.width

calculate_block_width(ln, id) ==
    [ln EXCEPT ![id + 1].dimensions.content.width = AutoWidth(ln[id + 1].dimensions,
                                                             ParentWidth(ln, id))]

\* LayoutTree::calculate_block_height
MaxBottom(ln, id) ==
    MaxOr({rect_bottom(margin_box(ln[c + 1].dimensions)) : c \in Range(ln[id + 1].children)}
          \cup {0}, 0)

AutoHeight(d, max_bottom) ==
    IF d.content.height = 0
    THEN (IF max_bottom - d.content.y - vertical(d.padding) < 0 THEN 0
          ELSE max_bottom - d.content.y - vertical(d.padding))
    ELSE d.content.height

calculate_block_height(ln, id) ==
    [ln EXCEPT ![id + 1].dimensions.content.height = AutoHeight(ln[id + 1].dimensions,
                                                               MaxBottom(ln, id))]

\* LayoutTree::layout_block_children: one turn of "for child_id in children" on
\* acc = the nodes and cursor_y; Positioned places a block child, Advance moves
\* the cursor past it once it is laid out
RECURSIVE layout_block(_, _)
Positioned(ln, child_id, start_x, cursor_y) ==
    [ln EXCEPT ![child_id + 1].dimensions.content.x = start_x + ln[child_id + 1].dimensions.margin.left,
               ![child_id + 1].dimensions.content.y = cursor_y + ln[child_id + 1].dimensions.margin.top]

Advance(ln, child_id, cursor_y) ==
    [ln |-> ln, cursor_y |-> cursor_y + total_height(ln[child_id + 1].dimensions)]

InlineChild(ln, child_id, start_x, cursor_y) ==
    IF ln[child_id + 1].text # <<>>
    THEN [ln |-> [ln EXCEPT ![child_id + 1].dimensions.content.x = start_x,
                            ![child_id + 1].dimensions.content.y = cursor_y,
                            ![child_id + 1].dimensions.content.height = LineHeight],
          cursor_y |-> cursor_y + LineHeight]
    ELSE [ln |-> [ln EXCEPT ![child_id + 1].dimensions.content.x = start_x,
                            ![child_id + 1].dimensions.content.y = cursor_y],
          cursor_y |-> cursor_y]

ChildStep(acc, child_id, start_x) ==
    IF acc.ln[child_id + 1].box_type \in {"Block", "InlineBlock"}
    THEN Advance(layout_block(Positioned(acc.ln, child_id, start_x, acc.cursor_y), child_id),
                 child_id, acc.cursor_y)
    ELSE InlineChild(acc.ln, child_id, start_x, acc.cursor_y)

layout_block_children(ln, id) ==
    LET Step(acc, child_id) ==
            ChildStep(acc, child_id,
                      ln[id + 1].dimensions.content.x + ln[id + 1].dimensions.padding.left)
    IN  FoldSeq(Step,
                [ln |-> ln,
                 cursor_y |-> ln[id + 1].dimensions.content.y + ln[id + 1].dimensions.padding.top],
                ln[id + 1].children).ln

\* LayoutTree::layout_block
layout_block(ln, id) ==
    calculate_block_height(layout_block_children(calculate_block_width(ln, id), id), id)

\* LayoutTree::layout: the root takes the viewport width at (0, 0)
layout_pass(ln) ==
    layout_block([ln EXCEPT ![1].dimensions.content.width = ViewportWidth,
                            ![1].dimensions.content.x = 0,
                            ![1].dimensions.content.y = 0], 0)

\* LayoutTree::build; body_id is doc.body()
build(ns, body_id, cache) ==
    layout_pass(IF body_id # None
                THEN build_recursive(create_node(<<>>, None, "Block"), ns, cache, body_id, 0)
                ELSE create_node(<<>>, None, "Block"))

-----------------------------------------------------------------------------
(* A page is loaded, styled and laid out: Tab::navigate, compute_style and
   compute_layout *)

MaxLayoutNodes == 7

\* the document parse_html makes of an empty page: html with head and body
PageSkeleton ==
    convert_element(convert_element(convert_element(NewDocument, 0, S_html, NoAttrs),
                                    1, S_head, NoAttrs),
                    1, S_body, NoAttrs)

LayoutInit ==
    /\ nodes = PageSkeleton
    /\ document_element = 1
    /\ head = 2
    /\ body = 3
    /\ appends = 0
    /\ OtherInit
    /\ ExtInit
    /\ SessInit

Styled(tag, style_text) == [tag |-> tag, attrs |-> Attr1(S_style, style_text)]

\* the elements written in the body of the pages
LayoutTemplates ==
    {[tag |-> S_div, attrs |-> NoAttrs],
     Styled(S_div, <<"p","a","d","d","i","n","g","-","t","o","p",":"," ","1","0","p","x",";"," ","m","a","r","g","i","n","-","b","o","t","t","o","m",":"," ","5","p","x">>),
     Styled(S_div, <<"d","i","s","p","l","a","y",":"," ","n","o","n","e">>),
     Styled(S_div, <<"d","i","s","p","l","a","y",":"," ","c","o","n","t","e","n","t","s">>),
     Styled(S_div, <<"m","a","r","g","i","n","-","l","e","f","t",":"," ","2","0","0","0","p","x">>),
     Styled(S_div, <<"w","i","d","t","h",":"," ","1","0","0","p","x",";"," ","h","e","i","g","h","t",":"," ","5","0","p","x">>),
     Styled(S_span, <<"d","i","s","p","l","a","y",":"," ","i","n","l","i","n","e",";"," ","w","i","d","t","h",":"," ","1","0","0","p","x">>)}

\* convert_node below body
ConvertBelowBody ==
    /\ ~loaded
    /\ Len(nodes) < MaxLayoutNodes
    /\ \E parent_id \in body..(Len(nodes) - 1) :
          /\ CanHoldChildren(nodes[parent_id + 1])
          /\ \/ \E t \in LayoutTemplates :
                   nodes' = convert_element(nodes, parent_id, t.tag, t.attrs)
             \/ nodes' = convert_text(nodes, parent_id, <<"t">>)
    /\ UNCHANGED <<document_element, head, body, appends, nonDomVars>>

\* Tab::compute_layout: layout_tree = Some(LayoutTree::build(doc, &style_context));
\* styles is the cache the tree was built from
ComputeLayout ==
    /\ loaded
    /\ layout' = <<[nodes |-> build(nodes, body, computed_cache),
                    styles |-> computed_cache]>>
    /\ UNCHANGED <<docVars, appends, coreVars, call, inline_ctx, sessVars>>

LayoutNext == ConvertBelowBody \/ ParseHtmlDone \/ ApplyStyles \/ ComputeLayout

SpecLayout == LayoutInit /\ [][LayoutNext]_vars

-----------------------------------------------------------------------------
(* Properties of the layout tree *)

\* the layout nodes of the tree last built, and the styles it was built from
LayoutNodes == layout[1].nodes
LayoutStyles == layout[1].styles

\* a tree has been built after apply_styles filled the cache
LaidOutStyled == layout # <<>> /\ DOMAIN LayoutStyles = NodeIds

LayoutIds == 0..(Len(LayoutNodes) - 1)

Box(b) == LayoutNodes[b + 1]

UnderBody == {n \in NodeIds : n = body \/ body \in Ancestors(nodes, n)}

Resolved(n) == display(LayoutStyles[n])

BoxesOf(n) == {b \in LayoutIds : Box(b).dom_node = n}

\* n is an element or text node that is not display:contents, and neither n nor
\* an ancestor of n up to body is display:none
Rendered(n) ==
    /\ nodes[n + 1].kind \in {"element", "text"}
    /\ Resolved(n) # "Contents"
    /\ \A a \in ({n} \cup Ancestors(nodes, n)) \cap UnderBody : Resolved(a) # "None"

\* the nearest ancestor of n under body that is not display:contents, None if
\* there is none
RECURSIVE Container(_)
Container(n) ==
    IF n = body THEN None
    ELSE IF Resolved(ParentOf(nodes, n)) = "Contents" THEN Container(ParentOf(nodes, n))
    ELSE ParentOf(nodes, n)

\* the box with the layout parent's id
ContainerBoxes(n) == IF Container(n) = None THEN {0} ELSE BoxesOf(Container(n))

\* C12: after apply_styles and LayoutTree::build a node under body has a layout
\* box exactly when it is an element or text node, neither it nor an ancestor up
\* to body is display:none and it is not display:contents itself; the box is a
\* child of the box of its nearest ancestor that is not display:contents, of the
\* layout root when there is no such ancestor under body.
C12_BoxesOfRenderedNodes ==
    LaidOutStyled =>
      \A n \in UnderBody :
        IF Rendered(n)
        THEN /\ Cardinality(BoxesOf(n)) = 1
             /\ \A b \in BoxesOf(n) :
                  /\ ContainerBoxes(n) = {Box(b).parent}
                  /\ b \in Range(Box(Box(b).parent).children)
        ELSE BoxesOf(n) = {}

\* a text node with a box under the layout root although its parent is an element
\* (display:contents) below body, next to a subtree dropped by display:none
C12_Witness ==
    /\ LaidOutStyled
    /\ \E n \in UnderBody :
         /\ nodes[n + 1].kind = "text"
         /\ Rendered(n)
         /\ ParentOf(nodes, n) # body
         /\ \E b \in BoxesOf(n) : Box(b).parent = Box(CHOOSE c \in BoxesOf(body) : TRUE).id
    /\ \E n \in UnderBody : Resolved(n) = "None"

\* the style of the node a box was made for
BoxStyle(b) == LayoutStyles[Box(b).dom_node]

\* C13: after LayoutTree::build every block box whose declared width is unset has
\* content width equal to its layout parent's content width minus its own
\* horizontal margin, border and padding.
C13_AutoWidthFillsParent ==
    LaidOutStyled =>
      \A b \in LayoutIds \ {0} :
        (Box(b).box_type = "Block" /\ "Width" \notin DOMAIN BoxStyle(b)) =>
          Box(b).dimensions.content.width =
              Box(Box(b).parent).dimensions.content.width
              - horizontal(Box(b).dimensions.margin)
              - horizontal(Box(b).dimensions.border)
              - horizontal(Box(b).dimensions.padding)

\* the box and every box above it is laid out by layout_block
RECURSIVE InBlockLayout(_)
InBlockLayout(b) ==
    /\ Box(b).box_type \in {"Block", "InlineBlock"}
    /\ Box(b).parent = None \/ InBlockLayout(Box(b).parent)

\* the boxes right before b among the children of its layout parent
PreviousBoxes(b) ==
    LET ch == Box(Box(b).parent).children
    IN  {ch[i] : i \in {i \in 1..(Len(ch) - 1) : ch[i + 1] = b}}

NoEdges(d) ==
    /\ d.margin = EdgeSizes(0, 0, 0, 0)
    /\ d.padding = EdgeSizes(0, 0, 0, 0)
    /\ d.border = EdgeSizes(0, 0, 0, 0)

\* C14: in block layout a block child with unset margin, padding and border that
\* has a previous sibling box has its content-y at the bottom edge of the previous
\* sibling's margin box, whatever that sibling's margin, padding and height are.
C14_StackedBelowPreviousSibling ==
    LaidOutStyled =>
      \A b \in LayoutIds \ {0} :
        (InBlockLayout(b) /\ Box(b).box_type = "Block" /\ NoEdges(Box(b).dimensions)) =>
          \A p \in PreviousBoxes(b) :
            Box(b).dimensions.content.y = rect_bottom(margin_box(Box(p).dimensions))

\* C15: after LayoutTree::build on a styled document no layout node has a negative
\* content width or a negative content height, whatever the styles declare.
C15_NoNegativeGeometry ==
    LaidOutStyled =>
      \A b \in LayoutIds :
        /\ Box(b).dimensions.content.width >= 0
        /\ Box(b).dimensions.content.height >= 0

-----------------------------------------------------------------------------
(* Inline layout: src/src/layout/inline.rs *)

MaxFragments == 4

\* LineBox::new
LineBox(y, w) == [bounds |-> Rect(0, y, w, 0), fragments |-> <<>>, baseline |-> 0]

InlineFragment(layout_id, bounds, text, fragment_type) ==
    [layout_id |-> layout_id, bounds |-> bounds, text |-> text,
     fragment_type |-> fragment_type]

\* LineBox::add_fragment
add_fragment(line, fragment) ==
    [line EXCEPT !.bounds.height = IF fragment.bounds.height > @
                                   THEN fragment.bounds.height ELSE @,
                 !.fragments = Append(@, fragment)]

\* InlineContext::new_line
NextLineY(c) ==
    IF c.lines # <<>>
    THEN c.lines[Len(c.lines)].bounds.y + c.lines[Len(c.lines)].bounds.height
    ELSE c.start_y

new_line(c) ==
    [c EXCEPT !.lines = Append(@, LineBox(NextLineY(c), c.width)),
              !.current_line = Len(c.lines),
              !.cursor_x = 0]

\* InlineContext::new
NewInlineContext(w, start_y) ==
    new_line([width |-> w, lines |-> <<>>, current_line |-> 0, cursor_x |-> 0,
              start_y |-> start_y])

\* "Check if ... fits on current line"
FitLine(c, w) == IF c.cursor_x + w > c.width /\ c.cursor_x > 0 THEN new_line(c) ELSE c

\* the fragment pushed on the current line, the cursor moved on by advance
Place(c, layout_id, w, h, text, fragment_type, advance) ==
    [c EXCEPT !.lines[c.current_line + 1] =
                  add_fragment(@, InlineFragment(layout_id, Rect(c.cursor_x, 0, w, h),
                                                 text, fragment_type)),
              !.cursor_x = @ + advance]

\* InlineContext::add_text, one turn of "for word in text.split_whitespace()"
AddWord(c, layout_id, word, char_width, line_height) ==
    Place(FitLine(c, Len(word) * char_width), layout_id, Len(word) * char_width,
          line_height, <<word>>, "Text", Len(word) * char_width + char_width)

\* InlineContext::add_text
add_text(c, layout_id, text, font_size) ==
    LET Word(acc, word) ==
            AddWord(acc, layout_id, word, (font_size * 6) \div 10, (font_size * 12) \div 10)
    IN  FoldSeq(Word, c, split_whitespace(text))

\* InlineContext::add_inline_element
add_inline_element(c, layout_id, w, h) ==
    Place(FitLine(c, w), layout_id, w, h, <<>>, "InlineElement", w)

-----------------------------------------------------------------------------
(* A sequence of add_text and add_inline_element calls on one InlineContext *)

LineWidth == 60 * Scale

FontSize == 10 * Scale

\* the texts added: one short word, two words, one word wider than the line
InlineTexts ==
    { <<"a","b">>, <<"a","b"," ","c","d","e">>,
      <<"a","b","c","d","e","f","g","h","i","j","k","l">> }

\* the widths of the inline elements added
ElementWidths == {0, 30 * Scale, 80 * Scale}

FragmentCount(c) == Len(ConcatMap(LAMBDA line : line.fragments, c.lines))

InlineNew ==
    /\ inline_ctx = <<>>
    /\ inline_ctx' = <<NewInlineContext(LineWidth, 0)>>
    /\ UNCHANGED <<docVars, appends, coreVars, call, layout, sessVars>>

AddText ==
    /\ inline_ctx # <<>>
    /\ \E text \in InlineTexts :
          /\ FragmentCount(inline_ctx[1]) + Len(split_whitespace(text)) <= MaxFragments
          /\ inline_ctx' = <<add_text(inline_ctx[1], 0, text, FontSize)>>
    /\ UNCHANGED <<docVars, appends, coreVars, call, layout, sessVars>>

AddInlineElement ==
    /\ inline_ctx # <<>>
    /\ FragmentCount(inline_ctx[1]) < MaxFragments
    /\ \E w \in ElementWidths :
          inline_ctx' = <<add_inline_element(inline_ctx[1], 0, w, FontSize)>>
    /\ UNCHANGED <<docVars, appends, coreVars, call, layout, sessVars>>

InlineNext == InlineNew \/ AddText \/ AddInlineElement

SpecInline == Init /\ [][InlineNext]_vars

\* the fragments in the order they were placed, each with the index of its line
Placed ==
    LET OfLine(k) == [i \in 1..Len(inline_ctx[1].lines[k].fragments) |->
                         [line |-> k, bounds |-> inline_ctx[1].lines[k].fragments[i].bounds,
                          text |-> inline_ctx[1].lines[k].fragments[i].text]]
    IN  ConcatMap(OfLine, [k \in 1..Len(inline_ctx[1].lines) |-> k])

\* the cursor after a fragment: past its width, and past one space after a word
\* (the space is half the line height, 0.6 against 1.2 times the font size)
CursorAfter(f) ==
    f.bounds.x + f.bounds.width + (IF f.text # <<>> THEN f.bounds.height \div 2 ELSE 0)

\* the i-th item would exceed the line width where the cursor stood before it
WouldExceed(i) ==
    (IF i = 1 THEN 0 ELSE CursorAfter(Placed[i - 1])) + Placed[i].bounds.width
        > inline_ctx[1].width

\* a new line was started for the i-th item
StartedLine(i) == i > 1 /\ Placed[i].line # Placed[i - 1].line

\* C16: a new line is started exactly when the item being placed would exceed the
\* line width and the current line already holds a fragment; so only the first
\* fragment of a line may extend past the line width.
C16_LineBreaks ==
    inline_ctx # <<>> =>
      /\ \A i \in 1..Len(Placed) : StartedLine(i) <=> (WouldExceed(i) /\ i > 1)
      /\ \A i \in 2..Len(Placed) :
           Placed[i].line = Placed[i - 1].line =>
             Placed[i].bounds.x + Placed[i].bounds.width <= inline_ctx[1].width

-----------------------------------------------------------------------------
(* Document::get_title on documents built through the Document interface *)

S_title == <<"t","i","t","l","e">>

\* the contents the inner loop of get_title meets: those of the text children of
\* a title element, in order
TextsOfTitle(ns, child_id) ==
    LET Content(text_id) ==
            IF valid(ns, text_id) /\ ns[text_id + 1].kind = "text"
            THEN <<ns[text_id + 1].content>> ELSE <<>>
    IN  IF valid(ns, child_id) /\ is_element(ns[child_id + 1])
           /\ ns[child_id + 1].tag_name = S_title
        THEN ConcatMap(Content, ns[child_id + 1].children)
        ELSE <<>>

\* the value returned at the first content met, None when the loops end
FirstTrimmed(contents) == IF contents = <<>> THEN <<>> ELSE <<trim(contents[1])>>

\* Document::get_title: <<title>> for Some(title), <<>> for None
get_title(ns, head_id) ==
    LET OfChild(child_id) == TextsOfTitle(ns, child_id)
    IN  IF head_id = None \/ ~valid(ns, head_id) THEN <<>>
        ELSE FirstTrimmed(ConcatMap(OfChild, ns[head_id + 1].children))

\* create_element or create_text followed by append_child under head or under an
\* element below head, before get_title is called
AppendBelowHead ==
    /\ call.fn = "none"
    /\ Len(nodes) < MaxLayoutNodes
    /\ \E parent_id \in {head} \cup {n \in NodeIds : ParentOf(nodes, n) = head} :
          /\ is_element(nodes[parent_id + 1])
          /\ \/ \E tag \in {S_title, S_style} :
                   nodes' = append_child(create_element(nodes, tag, NoAttrs),
                                         parent_id, Len(nodes))
             \/ \E content \in {<<" ", "A">>, <<"B", " ">>} :
                   nodes' = append_child(create_text(nodes, content), parent_id, Len(nodes))
    /\ UNCHANGED <<document_element, head, body, appends, nonDomVars>>

GetTitle ==
    /\ call.fn = "none"
    /\ call' = [fn |-> "get_title", result |-> get_title(nodes, head)]
    /\ UNCHANGED <<docVars, appends, coreVars, layout, inline_ctx, sessVars>>

TitleNext == AppendBelowHead \/ GetTitle

SpecTitle == LayoutInit /\ [][TitleNext]_vars

\* the title elements among the children of head that have a text child
TitlesWithText ==
    {t \in Range(nodes[head + 1].children) : TextsOfTitle(nodes, t) # <<>>}

\* all the text children of t, one after the other
AllText(t) ==
    LET Add(acc, content) == acc \o content
    IN  FoldSeq(Add, <<>>, TextsOfTitle(nodes, t))

\* C17: get_title returns the trimmed concatenation of all text children of a
\* title element that is a child of head: with several text children, all of
\* their text and not only the first.
C17_TitleIsAllText ==
    (call.fn = "get_title" /\ TitlesWithText # {}) =>
        \E t \in TitlesWithText : call.result = <<trim(AllText(t))>>

-----------------------------------------------------------------------------
(* Selectors with pseudo-classes and pseudo-elements *)

S_a == <<"a">>

PseudoTexts == <<
    <<"p",":","h","o","v","e","r">>,                                \* p:hover
    <<"p",":",":","b","e","f","o","r","e">>,                        \* p::before
    <<"*",":","f","i","r","s","t","-","c","h","i","l","d">>,        \* *:first-child
    <<"a",":","h","o","v","e","r"," ","p">>,                        \* a:hover p
    <<"a",":","h","o","v","e","r"," ",">"," ","p">>,                \* a:hover > p
    <<"a",":","h","o","v","e","r"," ","+"," ","p">>,                \* a:hover + p
    <<"p">> >>                                                      \* p

ParsedPseudo == [k \in 1..Len(PseudoTexts) |-> parse_selector(PseudoTexts[k])]

PseudoTemplates ==
    {[tag |-> S_a, attrs |-> NoAttrs],
     [tag |-> S_p, attrs |-> NoAttrs],
     [tag |-> S_div, attrs |-> NoAttrs]}

\* Selector::parse followed by Selector::matches on a node of the document
MatchPseudo ==
    /\ \E k \in 1..Len(PseudoTexts), n \in NodeIds :
          /\ ParsedPseudo[k] # <<>>
          /\ call' = [fn |-> "Selector::matches", text |-> PseudoTexts[k], node |-> n,
                      result |-> matches(nodes, ParsedPseudo[k][1], n)]
    /\ UNCHANGED <<docVars, appends, coreVars, layout, inline_ctx, sessVars>>

PseudoNext == ConvertElement(PseudoTemplates) \/ MatchPseudo

SpecPseudo == Init /\ [][PseudoNext]_vars

\* the selector text writes a pseudo-class or a pseudo-element
WritesPseudo(text) == \E i \in 1..Len(text) : text[i] = ":"

\* C19: a selector that contains a pseudo-class or pseudo-element in any of its
\* compound groups matches no node of any document.
C19_PseudoNeverMatches ==
    (call.fn = "Selector::matches" /\ WritesPseudo(call.text)) => ~call.result

-----------------------------------------------------------------------------
(* Specificity of parsed selectors *)

\* a simple selector as written, with what it adds to the id, class and type counts
Simple(text, ids, classes, types) ==
    [text |-> text, ids |-> ids, classes |-> classes, types |-> types]

Nothing == Simple(<<>>, 0, 0, 0)

TypeSelectors == {Nothing, Simple(S_p, 0, 0, 1), Simple(<<"*">>, 0, 0, 0)}

OtherSelectors ==
    {Nothing,
     Simple(<<"#","x">>, 1, 0, 0),
     Simple(<<".","a">>, 0, 1, 0),
     Simple(<<"[","x","]">>, 0, 1, 0),
     Simple(<<":","l","i","n","k">>, 0, 1, 0)}

CombinatorTexts == {<<" ">>, <<" ",">"," ">>, <<" ","+"," ">>}

\* a compound: an optional type or universal selector, then up to two others
Compound(t, a, b) ==
    Simple(t.text \o a.text \o b.text, t.ids + a.ids + b.ids,
           t.classes + a.classes + b.classes, t.types + a.types + b.types)

Compounds ==
    {c \in {Compound(t, a, b) : t \in TypeSelectors, a \in OtherSelectors, b \in OtherSelectors} :
        c.text # <<>>}

\* the compounds of one simple selector
SingleSelectors == {c \in TypeSelectors \cup OtherSelectors : c.text # <<>>}

LastCompounds == {Simple(S_p, 0, 0, 1), Simple(<<".","a">>, 0, 1, 0), Simple(<<"#","x">>, 1, 0, 0)}

\* Selector::parse followed by Selector::specificity
SpecificityFrom(parsed) == IF parsed = <<>> THEN <<>> ELSE <<parsed[1].specificity>>

SpecificityOf(text) == SpecificityFrom(parse_selector(text))

SpecificityCall(text, ids, classes, types) ==
    /\ call.fn = "none"
    /\ call' = [fn |-> "Selector::specificity", text |-> text,
                expected |-> <<0, ids, classes, types>>, result |-> SpecificityOf(text)]
    /\ UNCHANGED <<docVars, appends, coreVars, layout, inline_ctx, sessVars>>

ParseSpecificity ==
    \/ \E c \in Compounds : SpecificityCall(c.text, c.ids, c.classes, c.types)
    \/ \E c \in SingleSelectors, d \in LastCompounds, sep \in CombinatorTexts :
          SpecificityCall(c.text \o sep \o d.text, c.ids + d.ids,
                          c.classes + d.classes, c.types + d.types)

SpecSpecificity == Init /\ [][ParseSpecificity]_vars

\* C20: for any selector text, the specificity of the parsed selector is
\* (0, id selectors, class + attribute + pseudo-class selectors, type +
\* pseudo-element selectors) counted over every compound written in the text;
\* universal selectors add nothing.
C20_SpecificityCounts ==
    call.fn = "Selector::specificity" => call.result = <<call.expected>>

-----------------------------------------------------------------------------
(* Rules and selector lists of parsed stylesheets *)

MaxEntries == 3

S_color_red == <<"c","o","l","o","r",":"," ","r","e","d">>

\* the entries written between the commas of a selector list
EntryTexts == {<<>>, <<" ">>, <<"p">>, <<".","a">>}

\* the lists of one to MaxEntries entries, and the short ones used for a second block
EntryLists == UNION {[1..n -> EntryTexts] : n \in 1..MaxEntries}

ShortLists == {<<e>> : e \in EntryTexts} \cup {<<e, <<"p">>>> : e \in EntryTexts}

\* the block "e1,e2,..,en { color: red }"
BlockText(entries) ==
    JoinValues(entries, <<",">>) \o <<" ", "{", " ">> \o S_color_red \o <<" ", "}", " ">>

\* parse_stylesheet called on a sheet of the given blocks
SheetCall(blocks) ==
    /\ call.fn = "none"
    /\ call' = [fn |-> "parse_stylesheet blocks", blocks |-> blocks,
                result |-> parse_stylesheet(ConcatMap(BlockText, blocks))]
    /\ UNCHANGED <<docVars, appends, coreVars, layout, inline_ctx, sessVars>>

ParseBlocks ==
    \/ \E entries \in EntryLists : SheetCall(<<entries>>)
    \/ \E first \in ShortLists, second \in ShortLists : SheetCall(<<first, second>>)

SpecBlocks == Init /\ [][ParseBlocks]_vars

\* the entries of a list that are not empty after trimming, in order
KeptEntries(entries) == SelectSeq(entries, LAMBDA e : trim(e) # <<>>)

\* the blocks that keep at least one entry, in order
KeptBlocks(blocks) == SelectSeq(blocks, LAMBDA entries : KeptEntries(entries) # <<>>)

\* the selector written in entry e is the type selector or class selector it names
IsSelectorOf(sel, e) ==
    /\ Len(sel.parts) = 1
    /\ Len(sel.parts[1].parts) = 1
    /\ sel.parts[1].parts[1].kind = (IF e[1] = "." THEN "Class" ELSE "Type")
    /\ sel.parts[1].parts[1].name = (IF e[1] = "." THEN Tail(e) ELSE e)

\* C21: parse_stylesheet returns, in source order, one rule per block with one
\* selector per non-empty comma-separated entry of its selector list; an entry
\* that is empty after trimming is dropped, and a block all of whose entries are
\* dropped produces no rule.
C21_RulesAndSelectors ==
    call.fn = "parse_stylesheet blocks" =>
       LET kept == KeptBlocks(call.blocks) IN
       /\ Len(call.result) = Len(kept)
       /\ \A b \in 1..Len(kept) :
             LET entries == KeptEntries(kept[b])
                 selectors == call.result[b].selectors
             IN  /\ Len(selectors) = Len(entries)
                 /\ \A k \in 1..Len(entries) : IsSelectorOf(selectors[k], entries[k])
                 /\ Len(call.result[b].declarations) = 1

\* a sheet whose first block loses all its entries and whose second keeps one of two
C21_Witness ==
    /\ call.fn = "parse_stylesheet blocks"
    /\ call.blocks = << <<<<" ">>>>, <<<<>>, <<"p">>>> >>
    /\ Len(call.result) = 1
    /\ Len(call.result[1].selectors) = 1

-----------------------------------------------------------------------------
(* Compounds and groups of parsed selectors *)

\* a simple selector as written and the part it stands for
Written(text, kind, name) == [text |-> text, part |-> Part(kind, name, "None", <<>>)]

FirstSimple ==
    {Written(<<".","a">>, "Class", <<"a">>), Written(<<"#","x">>, "Id", <<"x">>),
     Written(S_div, "Type", S_div), Written(<<"*">>, "Universal", <<>>)}

SecondSimple ==
    {Written(<<".","b">>, "Class", <<"b">>), Written(<<"#","y">>, "Id", <<"y">>),
     Written(<<"[","h","]">>, "Attribute", <<"h">>)}

LastSimple ==
    {Written(S_p, "Type", S_p), Written(<<".","c">>, "Class", <<"c">>),
     Written(<<"#","z">>, "Id", <<"z">>)}

WrittenCombinators ==
    {[text |-> <<" ">>, combinator |-> "Descendant"],
     [text |-> <<" ",">"," ">>, combinator |-> "Child"],
     [text |-> <<" ","+"," ">>, combinator |-> "Adjacent"]}

\* Selector::parse on a text, with the groups written in it
CompoundCall(text, groups) ==
    /\ call.fn = "none"
    /\ call' = [fn |-> "Selector::parse", text |-> text, groups |-> groups,
                result |-> parse_selector(text)]
    /\ UNCHANGED <<docVars, appends, coreVars, layout, inline_ctx, sessVars>>

Group(parts, combinator) == [parts |-> parts, combinator |-> combinator]

ParseCompound ==
    \/ \E a \in FirstSimple : CompoundCall(a.text, <<Group(<<a.part>>, "None")>>)
    \/ \E a \in FirstSimple, b \in SecondSimple :
          CompoundCall(a.text \o b.text, <<Group(<<a.part, b.part>>, "None")>>)
    \/ \E a \in FirstSimple, j \in WrittenCombinators, c \in LastSimple :
          CompoundCall(a.text \o j.text \o c.text,
                       <<Group(<<a.part>>, j.combinator), Group(<<c.part>>, "None")>>)
    \/ \E a \in FirstSimple, b \in SecondSimple, j \in WrittenCombinators, c \in LastSimple :
          CompoundCall(a.text \o b.text \o j.text \o c.text,
                       <<Group(<<a.part, b.part>>, j.combinator),
                         Group(<<c.part>>, "None")>>)

SpecCompound == Init /\ [][ParseCompound]_vars

\* C22: Selector::parse recognises each simple selector without consuming the
\* character that follows its identifier: ".a.b" and "#x.b" yield one compound
\* holding both simple selectors, and ".a p" or "#x p" yield two compound groups
\* joined by a descendant combinator, exactly as "div p" does.
C22_SimpleSelectorsKept ==
    call.fn = "Selector::parse" =>
       /\ call.result # <<>>
       /\ call.result[1].parts = call.groups

-----------------------------------------------------------------------------
(* Shorthands written in style attributes *)

S_margin_5px == <<"m","a","r","g","i","n",":"," ","5","p","x">>
S_margin_top_5px == <<"m","a","r","g","i","n","-","t","o","p",":"," ","5","p","x">>
S_padding_1px_2px == <<"p","a","d","d","i","n","g",":"," ","1","p","x"," ","2","p","x">>

AttrTemplates ==
    {[tag |-> S_div, attrs |-> NoAttrs],
     Styled(S_div, S_margin_5px),
     Styled(S_div, S_margin_top_5px),
     Styled(S_div, S_padding_1px_2px)}

\* convert_node on the elements written below body
ConvertStyled ==
    /\ ~loaded
    /\ Len(nodes) < MaxLayoutNodes
    /\ \E parent_id \in body..(Len(nodes) - 1), t \in AttrTemplates :
          nodes' = convert_element(nodes, parent_id, t.tag, t.attrs)
    /\ UNCHANGED <<document_element, head, body, appends, nonDomVars>>

AttrNext == ConvertStyled \/ ParseHtmlDone \/ ApplyStyles

SpecAttr == LayoutInit /\ [][AttrNext]_vars

\* apply_styles has filled the cache for the document
StylesApplied == lastOp = "apply_styles" /\ DOMAIN computed_cache = NodeIds

HasStyleAttr(n, text) ==
    /\ is_element(nodes[n + 1])
    /\ has_attribute(nodes[n + 1], S_style)
    /\ nodes[n + 1].attributes[S_style] = text

FivePx == Length("Px", 5 * Scale)

\* C23: a shorthand declaration in a style attribute is expanded like a
\* stylesheet one: style="margin: 5px" sets the element's computed margin-top,
\* margin-right, margin-bottom and margin-left to 5px.
C23_InlineShorthandExpanded ==
    StylesApplied =>
       \A n \in NodeIds :
          HasStyleAttr(n, S_margin_5px) =>
             margin(computed_cache[n]) = <<FivePx, FivePx, FivePx, FivePx>>

-----------------------------------------------------------------------------
(* Heights and the vertical cursor in block layout *)

\* the largest margin-box bottom edge among the children of box b
MaxChildBottom(b) ==
    MaxOr({rect_bottom(margin_box(Box(c).dimensions)) : c \in Range(Box(b).children)}, 0)

ClampedAtZero(v) == IF v < 0 THEN 0 ELSE v

\* the height of box b is not declared
HeightUnset(b) == Box(b).dom_node = None \/ "Height" \notin DOMAIN BoxStyle(b)

\* C24: for a block box with unset height, the content height after layout equals
\* the maximum margin-box bottom edge among its children minus the box's own
\* padding-box origin and its vertical padding, clamped at zero.
C24_AutoHeightFromChildren ==
    LaidOutStyled =>
      \A b \in LayoutIds :
        (InBlockLayout(b) /\ HeightUnset(b) /\ Box(b).children # <<>>) =>
          Box(b).dimensions.content.height =
              ClampedAtZero(MaxChildBottom(b) - padding_box(Box(b).dimensions).y
                            - vertical(Box(b).dimensions.padding))

\* C25: in block layout every inline or text child is placed at the current
\* cursor and advances the vertical cursor by the fixed 20px line height, so a box
\* that follows an inline element or a text node starts 20px lower than that child.
C25_InlineAdvancesCursor ==
    LaidOutStyled =>
      \A b \in LayoutIds \ {0} :
        (InBlockLayout(Box(b).parent) /\ Box(b).dimensions.margin.top = 0) =>
          \A p \in PreviousBoxes(b) :
            Box(p).box_type \in {"Inline", "Text"} =>
              Box(b).dimensions.content.y = Box(p).dimensions.content.y + LineHeight

-----------------------------------------------------------------------------
(* The document converted by parse_html is a tree *)

\* convert_node, RcNodeData::Comment
convert_comment(ns, parent_id, content) ==
    append_child(create_comment(ns, content), parent_id, Len(ns))

ConvertComment ==
    /\ ~loaded
    /\ Len(nodes) < MaxNodes
    /\ \E parent_id \in NodeIds :
          /\ CanHoldChildren(nodes[parent_id + 1])
          /\ nodes' = convert_comment(nodes, parent_id, <<"c">>)
    /\ UNCHANGED <<document_element, head, body, appends, nonDomVars>>

ConvertTemplates == {[tag |-> S_div, attrs |-> NoAttrs], [tag |-> S_p, attrs |-> NoAttrs]}

ConvertNext ==
    \/ ConvertElement(ConvertTemplates)
    \/ ConvertText({<<"t">>, <<" ">>})
    \/ ConvertComment
    \/ ParseHtmlDone

SpecConvert == Init /\ [][ConvertNext]_vars

\* the node reached from n by following parent links k times, None past the root
RECURSIVE ParentChain(_, _, _)
ParentChain(ns, n, k) ==
    IF k = 0 \/ n = None THEN n ELSE ParentChain(ns, ns[n + 1].parent, k - 1)

\* the number of places n takes in the child lists of the document
Occurrences(ns, n) ==
    LET Count(acc, p) == acc + Cardinality(Positions(ns, p, n))
    IN  FoldSeq(Count, 0, [p \in 1..Len(ns) |-> p - 1])

\* C26: when every node is appended exactly once, right after its creation, under
\* a node that is already attached, the document is a tree rooted at node 0: every
\* non-root node has exactly one parent, whose identifier is smaller than its own,
\* and the parent chain of every node reaches the root.
C26_ConvertedIsTree ==
    /\ nodes[1].parent = None
    /\ Occurrences(nodes, 0) = 0
    /\ \A n \in NodeIds \ {0} :
          /\ nodes[n + 1].parent \in 0..(n - 1)
          /\ Occurrences(nodes, n) = 1
          /\ Positions(nodes, nodes[n + 1].parent, n) # {}
          /\ \E k \in 1..n : ParentChain(nodes, n, k) = 0

\* a full document with a text node or a comment below an element below an element
C26_Witness ==
    /\ loaded
    /\ Len(nodes) = MaxNodes
    /\ \E n \in NodeIds :
          /\ nodes[n + 1].kind \in {"text", "comment"}
          /\ ParentChain(nodes, n, 2) # None
          /\ ParentChain(nodes, n, 2) # 0

-----------------------------------------------------------------------------
(* One tab loading one page after another: src/src/browser/tab.rs *)

\* the page <html><head>[<style>sheet</style>]</head><body><tag ..></body></html>
WithStyleElement(ns, sheet) ==
    IF sheet = <<>> THEN ns
    ELSE convert_text(convert_element(ns, 2, S_style, NoAttrs), Len(ns), sheet)

Page(sheet, t) ==
    convert_element(WithStyleElement(PageSkeleton, sheet), 3, t.tag, t.attrs)

PageSheets == {<<>>, SheetTexts[1], SheetTexts[2]}

PageTemplates ==
    {[tag |-> S_p, attrs |-> NoAttrs],
     [tag |-> S_div, attrs |-> NoAttrs],
     Styled(S_p, S_inline_style)}

\* StyleContext::new
NewStyleContext == [author_rules |-> <<>>, computed_cache |-> EmptyCache]

\* Tab::navigate from "Parse HTML into DOM" to compute_style: the tab's document
\* is replaced and its style context applies the styles
Navigate ==
    /\ \E sheet \in PageSheets, t \in PageTemplates :
          /\ Len(author_rules) + Len(style_element_rules(Page(sheet, t))) <= MaxAuthorRules
          /\ nodes' = Page(sheet, t)
          /\ author_rules' = apply_styles(ctx, Page(sheet, t)).author_rules
          /\ computed_cache' = apply_styles(ctx, Page(sheet, t)).computed_cache
    /\ loaded' = TRUE
    /\ lastOp' = "apply_styles"
    /\ prev_cache' = Snapshot
    /\ UNCHANGED <<document_element, head, body, appends, lastMatch, style, applied, extVars>>

SpecTab == LayoutInit /\ [][Navigate]_vars

\* the values a fresh style context computes for the tab's document
FreshCache == apply_styles(NewStyleContext, nodes).computed_cache

\* C27: styling is isolated per document: when one StyleContext runs apply_styles
\* on document A and later on a different document B, every computed style of B
\* equals the one obtained by styling B with a fresh StyleContext; rules taken
\* from A's <style> elements do not affect B.
C27_StylesIsolatedPerDocument ==
    lastOp = "apply_styles" =>
      LET fresh == FreshCache IN
      /\ DOMAIN computed_cache = DOMAIN fresh
      /\ \A n \in DOMAIN computed_cache, q \in AllProperties :
            get(computed_cache[n], q) = get(fresh[n], q)

-----------------------------------------------------------------------------
(* The recursive tree queries, one call at a time *)

MaxWalkNodes == 3
MaxWalkAppends == 2

\* create_element, create_text and append_child with valid identifiers, while no
\* query is running
WalkCreate ==
    /\ call.fn = "none"
    /\ Len(nodes) < MaxWalkNodes
    /\ \/ nodes' = create_element(nodes, S_div, NoAttrs)
       \/ nodes' = create_element(nodes, S_p, Attr1(S_id, S_x))
       \/ nodes' = create_text(nodes, <<"t">>)
    /\ UNCHANGED <<document_element, head, body, appends, nonDomVars>>

WalkAppend ==
    /\ call.fn = "none"
    /\ appends < MaxWalkAppends
    /\ \E parent_id \in NodeIds, child_id \in NodeIds :
          nodes' = append_child(nodes, parent_id, child_id)
    /\ appends' = appends + 1
    /\ UNCHANGED <<document_element, head, body, nonDomVars>>

\* a call of collect_elements_by_tag, find_element_by_id or collect_text_content
\* on node_id, about to look at its child number next
Frame(node_id) == [node |-> node_id, next |-> 1]

\* a node is on the call path twice
Reentered(stack) == \E i, j \in 1..Len(stack) : i < j /\ stack[i].node = stack[j].node

\* get_elements_by_tag_name and get_element_by_id start at the root,
\* get_text_content at the node it is given
StartQuery ==
    /\ call.fn = "none"
    /\ \/ \E fn \in {"collect_elements_by_tag", "find_element_by_id"} :
             call' = [fn |-> fn, stack |-> <<Frame(0)>>]
       \/ \E n \in NodeIds : call' = [fn |-> "collect_text_content", stack |-> <<Frame(n)>>]
    /\ UNCHANGED <<docVars, appends, coreVars, layout, inline_ctx, sessVars>>

\* find_element_by_id returns Some(node_id) at a node whose id is the one asked for
Found(fn, node_id) ==
    /\ fn = "find_element_by_id"
    /\ has_attribute(nodes[node_id + 1], S_id)
    /\ nodes[node_id + 1].attributes[S_id] = S_x

\* the top call after its loop has moved to the next child
Moved(stack) == [stack EXCEPT ![Len(stack)].next = @ + 1]

\* one turn of "for child_id in &node.children" in the top call: the recursive
\* call on the child, the return when the children are exhausted, the return of
\* every call on the path when the element is found
StepOf(fn, stack, top) ==
    IF Found(fn, top.node) THEN <<>>
    ELSE IF top.next > Len(nodes[top.node + 1].children)
    THEN SubSeq(stack, 1, Len(stack) - 1)
    ELSE Append(Moved(stack), Frame(nodes[top.node + 1].children[top.next]))

WalkStep ==
    /\ call.fn \in {"collect_elements_by_tag", "find_element_by_id", "collect_text_content"}
    /\ call.stack # <<>>
    /\ ~Reentered(call.stack)
    /\ call' = [call EXCEPT !.stack = StepOf(call.fn, call.stack, call.stack[Len(call.stack)])]
    /\ UNCHANGED <<docVars, appends, coreVars, layout, inline_ctx, sessVars>>

WalkNext == WalkCreate \/ WalkAppend \/ StartQuery \/ WalkStep

SpecWalk == Init /\ [][WalkNext]_vars

\* C28: on every document state reachable through create_element/create_text/
\* create_comment and append_child with valid identifiers the tree queries
\* get_elements_by_tag_name, get_element_by_id and get_text_content terminate:
\* their recursion never enters a node that is already on its call path, which
\* it would then enter again without end.
C28_QueriesTerminate == call.fn # "none" => ~Reentered(call.stack)

-----------------------------------------------------------------------------
(* Tabs of the browser: src/src/browser/engine.rs *)

MaxTabs == 3
MaxTabIds == 4

\* Vec::remove
RemoveAt(s, index) == SubSeq(s, 1, index) \o SubSeq(s, index + 2, Len(s))

\* the active index after a tab was removed
ClampActive(active_tab, len) == IF active_tab >= len THEN len - 1 ELSE active_tab

\* Browser::close_tab
close_tab(b, index) ==
    IF Len(b.tabs) > 1 /\ index < Len(b.tabs)
    THEN [b EXCEPT !.tabs = RemoveAt(b.tabs, index),
                   !.active_tab = ClampActive(b.active_tab, Len(b.tabs) - 1)]
    ELSE b

\* Browser::switch_tab
switch_tab(b, index) == IF index < Len(b.tabs) THEN [b EXCEPT !.active_tab = index] ELSE b

\* Browser::active_tab, as the id of the tab: <<id>> for Some, <<>> for None
active_tab_id(b) == IF b.active_tab < Len(b.tabs) THEN <<b.tabs[b.active_tab + 1]>> ELSE <<>>

\* a call on the browser; before is the browser it was made on
BrowserCall(op, index, after) ==
    /\ browser' = [b |-> after, last |-> [op |-> op, index |-> index, before |-> browser.b]]
    /\ UNCHANGED <<docVars, appends, coreVars, call, layout, inline_ctx, http_cache>>

NewTab ==
    /\ Len(browser.b.tabs) < MaxTabs
    /\ browser.b.next_tab_id < MaxTabIds
    /\ BrowserCall("new_tab", 0, new_tab(browser.b))

CloseTab == \E index \in 0..MaxTabs : BrowserCall("close_tab", index, close_tab(browser.b, index))

SwitchTab ==
    \E index \in 0..MaxTabs : BrowserCall("switch_tab", index, switch_tab(browser.b, index))

BrowserNext == NewTab \/ CloseTab \/ SwitchTab

SpecBrowser == Init /\ [][BrowserNext]_vars

\* the last call closed a tab that was open and was not the active one
ClosedOtherTab ==
    /\ browser.last.op = "close_tab"
    /\ Len(browser.b.tabs) < Len(browser.last.before.tabs)
    /\ browser.last.index # browser.last.before.active_tab

\* C29: in any sequence of new_tab, close_tab and switch_tab calls, close_tab on a
\* tab other than the active one leaves the same tab (by tab id) active.
C29_ClosingOtherKeepsActive ==
    ClosedOtherTab => active_tab_id(browser.b) = active_tab_id(browser.last.before)

-----------------------------------------------------------------------------
(* The response cache: src/src/network/cache.rs *)

MaxBody == 3
MaxNow == 4
Urls == {"a", "b"}

\* the url of the entry with the least cached_at
OldestKey(entries) ==
    CHOOSE k \in DOMAIN entries : \A u \in DOMAIN entries : entries[k].cached_at <= entries[u].cached_at

\* Cache::evict_oldest
evict_oldest(c) ==
    IF DOMAIN c.entries = {} THEN c
    ELSE LET key == OldestKey(c.entries)
         IN  [c EXCEPT !.entries = [u \in DOMAIN c.entries \ {key} |-> c.entries[u]],
                       !.current_size = c.current_size - c.entries[key].size]

\* the loop of Cache::put that makes room for entry_size bytes
RECURSIVE MakeRoom(_, _)
MakeRoom(c, entry_size) ==
    IF c.current_size + entry_size > c.max_size /\ DOMAIN c.entries # {}
    THEN MakeRoom(evict_oldest(c), entry_size)
    ELSE c

\* HashMap::insert followed by the size bookkeeping of Cache::put
Inserted(c, url, entry) ==
    [c EXCEPT !.entries = [u \in DOMAIN c.entries \cup {url} |->
                              IF u = url THEN entry ELSE c.entries[u]],
              !.current_size = (IF url \in DOMAIN c.entries
                                THEN c.current_size - c.entries[url].size
                                ELSE c.current_size) + entry.size]

\* Cache::put
put(c, url, entry) == Inserted(MakeRoom(c, entry.size), url, entry)

\* Cache::clear
clear(c) == [c EXCEPT !.entries = [u \in {} |-> <<>>], !.current_size = 0]

\* Cache::size
size(c) == c.current_size

\* a call on the cache at the instant now
CacheCall(op, after, now) ==
    /\ http_cache' = [c |-> after, now |-> now, last |-> [op |-> op, before |-> http_cache.c]]
    /\ UNCHANGED <<docVars, appends, coreVars, call, layout, inline_ctx, browser>>

CacheNew == \E max_size \in 0..MaxCacheSize : CacheCall("new", new_cache(max_size), http_cache.now)

\* the entry is made at the call, as HttpClient does: cached_at is Instant::now()
CachePut ==
    /\ http_cache.now < MaxNow
    /\ \E url \in Urls, len \in 0..MaxBody :
           CacheCall("put", put(http_cache.c, url, [size |-> len, cached_at |-> http_cache.now]),
                     http_cache.now + 1)

CacheClear == CacheCall("clear", clear(http_cache.c), http_cache.now)

CacheNext == CacheNew \/ CachePut \/ CacheClear

SpecCache == Init /\ [][CacheNext]_vars

\* C30: after any sequence of Cache::put and Cache::clear calls, size() never
\* exceeds the max size the cache was created with.
C30_SizeWithinMax == size(http_cache.c) <= http_cache.c.max_size

=============================================================================
